---- MODULE Spec2Model ----
(***************************************************************************)
(* Message relay with fee-gated delivery: the relational tables, the query *)
(* layer over them (internal/db) and the HTTP handlers (internal/handlers). *)
(* The tables are the only state; every handler re-reads them.              *)
(***************************************************************************)
EXTENDS Integers, Sequences, FiniteSets, Bags, TLC

VARIABLES messageBox, messages, message_permissions, server_fees,
          device_registrations, workers

vars == <<messageBox, messages, message_permissions, server_fees,
          device_registrations, workers>>

(***************************************************************************)
(* Value domains the requests are drawn from                                *)
(***************************************************************************)
\* identity keys accepted by isValidPubKey
Keys == {"A", "B"}
\* a recipient string carrying leading white space, and one that is no key
PaddedA == " A"
BadKey == "zz"
\* getIdentityKey returns "" when the request is not authenticated
NoIdentity == ""
\* SQL NULL in message_permissions.sender / a nil *string
Null == "<NULL>"
BoxTypes == {"inbox", "notifications"}
MsgIds == {"m1", "m2"}
Bodies == {"b1", "b2"}
\* json.RawMessage of the payment field: absent, the literal null, a payload
NoPayment == ""
JsonNull == "null"
Payments == {NoPayment, JsonNull, "p1"}
\* recipientFee values of /permissions/set: blocked, always allowed, satoshis
\* required, and an integer below -1 (the handler takes any integer)
Fees == {-2, -1, 0, 5}

\* rows the permission table may hold (the AUTOINCREMENT id is capped here)
MaxPermRows == 3

\* strings.TrimSpace on the strings of the model
TrimSpace(s) ==
    CASE s = PaddedA -> "A"
      [] s = " " -> ""
      [] OTHER -> s

\* ec.PublicKeyFromString succeeds
isValidPubKey(key) == key \in Keys

(***************************************************************************)
(* The database: one record of tables, so that a handler is a function of   *)
(* the tables and its request.                                              *)
(***************************************************************************)
DB == [messageBox |-> messageBox, messages |-> messages,
       message_permissions |-> message_permissions, server_fees |-> server_fees,
       device_registrations |-> device_registrations]

\* A table whose rows carry no key of their own in the model (messages,
\* message_permissions: their id, rowid and timestamps are left out) is a bag
\* of rows, so that two equal rows stay two rows.
BagAdd(bag, row) == bag (+) SetToBag({row})

\* the rows of a bag that satisfy no / some condition, given as a set of rows
BagWithout(bag, rows) == [r \in DOMAIN bag \ rows |-> bag[r]]

RECURSIVE BagCount(_, _)
BagCount(bag, rows) ==
    IF rows = {} THEN 0
    ELSE LET r == CHOOSE x \in rows : TRUE
         IN (IF r \in DOMAIN bag THEN bag[r] ELSE 0) + BagCount(bag, rows \ {r})

\* next value of an INTEGER PRIMARY KEY AUTOINCREMENT column
NextId(rows) ==
    IF rows = {} THEN 1
    ELSE (CHOOSE i \in {r.id : r \in rows} : \A r \in rows : r.id <= i) + 1

\* the tables after Migrate on an empty database
MigratedDB ==
    [messageBox |-> {},
     messages |-> EmptyBag,
     message_permissions |-> EmptyBag,
     server_fees |-> {[message_box |-> "notifications", delivery_fee |-> 10],
                      [message_box |-> "inbox", delivery_fee |-> 0],
                      [message_box |-> "payment_inbox", delivery_fee |-> 0]},
     device_registrations |-> {}]

\* the tables as CREATE TABLE IF NOT EXISTS leaves a new database
EmptyTables ==
    [messageBox |-> {},
     messages |-> EmptyBag,
     message_permissions |-> EmptyBag,
     server_fees |-> {},
     device_registrations |-> {}]

\* INSERT OR IGNORE INTO server_fees: message_box is UNIQUE, a repeat is ignored
InsertOrIgnoreFee(db, box, fee) ==
    IF \E f \in db.server_fees : f.message_box = box THEN db
    ELSE [db EXCEPT !.server_fees = @ \cup {[message_box |-> box, delivery_fee |-> fee]}]

\* Migrate: the CREATE ... IF NOT EXISTS statements keep what is stored, then
\* the three default server fees are inserted unless present
Migrate(db) ==
    InsertOrIgnoreFee(
        InsertOrIgnoreFee(
            InsertOrIgnoreFee(db, "notifications", 10),
            "inbox", 0),
        "payment_inbox", 0)

\* SELECT messageBoxId FROM messageBox WHERE identityKey = ? AND type = ?
BoxRows(db, identityKey, boxType) ==
    {b \in db.messageBox : b.identityKey = identityKey /\ b.type = boxType}

\* mutant: a plain INSERT into a table without UNIQUE(type, identityKey)
InsertOrIgnoreBoxPlain(db, identityKey, boxType) ==
    [db EXCEPT !.messageBox = @ \cup
        {[id |-> NextId(db.messageBox), identityKey |-> identityKey, type |-> boxType]}]

\* mutant: INSERT OR REPLACE, a conflicting row is deleted and inserted
\* again under a new id
InsertOrReplaceBox(db, identityKey, boxType) ==
    [db EXCEPT !.messageBox = (@ \ BoxRows(db, identityKey, boxType)) \cup
        {[id |-> NextId(db.messageBox), identityKey |-> identityKey, type |-> boxType]}]

\* INSERT OR IGNORE INTO messageBox: UNIQUE(type, identityKey) ignores a repeat
InsertOrIgnoreBox(db, identityKey, boxType) ==
    IF BoxRows(db, identityKey, boxType) # {} THEN db
    ELSE [db EXCEPT !.messageBox = @ \cup
            {[id |-> NextId(db.messageBox), identityKey |-> identityKey, type |-> boxType]}]

\* GetMessageBoxID: the id, or 0 on sql.ErrNoRows
GetMessageBoxID(db, identityKey, boxType) ==
    IF BoxRows(db, identityKey, boxType) = {} THEN 0
    ELSE (CHOOSE b \in BoxRows(db, identityKey, boxType) : TRUE).id

\* EnsureMessageBox: insert-or-ignore, then read the id back
EnsureMessageBox(db, identityKey, boxType) ==
    LET db1 == InsertOrIgnoreBox(db, identityKey, boxType)
    IN [db |-> db1, id |-> GetMessageBoxID(db1, identityKey, boxType)]

\* mutant: a plain INSERT into a table without the UNIQUE id
InsertMessagePlain(db, messageID, messageBoxID, sender, recipient, body) ==
    [db EXCEPT !.messages = BagAdd(@,
        [messageId |-> messageID, messageBoxId |-> messageBoxID,
         sender |-> sender, recipient |-> recipient, body |-> body])]

\* mutant: INSERT OR REPLACE, the new row takes the place of the old one
InsertMessageReplace(db, messageID, messageBoxID, sender, recipient, body) ==
    [db EXCEPT !.messages =
        BagAdd([m \in {x \in DOMAIN @ : x.messageId # messageID} |-> @[m]],
               [messageId |-> messageID, messageBoxId |-> messageBoxID,
                sender |-> sender, recipient |-> recipient, body |-> body])]

\* InsertMessage: INSERT OR IGNORE, messages.messageId is UNIQUE
InsertMessage(db, messageID, messageBoxID, sender, recipient, body) ==
    IF \E m \in DOMAIN db.messages : m.messageId = messageID THEN db
    ELSE [db EXCEPT !.messages = BagAdd(@,
            [messageId |-> messageID, messageBoxId |-> messageBoxID,
             sender |-> sender, recipient |-> recipient, body |-> body])]

\* variant: every message of the recipient, whatever its box
ListMessagesAnyBox(db, recipient, messageBoxID) ==
    {m \in DOMAIN db.messages : m.recipient = recipient}

\* ListMessages: WHERE recipient = ? AND messageBoxId = ?
ListMessages(db, recipient, messageBoxID) ==
    {m \in DOMAIN db.messages : m.recipient = recipient /\ m.messageBoxId = messageBoxID}

\* the elements of a sequence
Range(q) == {q[i] : i \in 1..Len(q)}

\* mutant: the DELETE forgets the recipient
AcknowledgeMessagesAnyRecipient(db, recipient, messageIDs) ==
    IF Len(messageIDs) = 0 THEN [db |-> db, deleted |-> 0]
    ELSE LET hit == {m \in DOMAIN db.messages :
                        m.messageId \in {messageIDs[i] : i \in 1..Len(messageIDs)}}
         IN [db |-> [db EXCEPT !.messages = [r \in DOMAIN @ \ hit |-> @[r]]],
             deleted |-> BagCount(db.messages, hit)]

\* mutant: the DELETE forgets the ids and empties the recipient's messages
AcknowledgeMessagesAllIds(db, recipient, messageIDs) ==
    IF Len(messageIDs) = 0 THEN [db |-> db, deleted |-> 0]
    ELSE LET hit == {m \in DOMAIN db.messages : m.recipient = recipient}
         IN [db |-> [db EXCEPT !.messages = [r \in DOMAIN @ \ hit |-> @[r]]],
             deleted |-> BagCount(db.messages, hit)]

\* AcknowledgeMessages: DELETE ... WHERE recipient = ? AND messageId IN (...),
\* with the number of rows affected
AcknowledgeMessages(db, recipient, messageIDs) ==
    IF Len(messageIDs) = 0 THEN [db |-> db, deleted |-> 0]
    ELSE LET hit == {m \in DOMAIN db.messages :
                        m.recipient = recipient /\ m.messageId \in Range(messageIDs)}
         IN [db |-> [db EXCEPT !.messages = BagWithout(@, hit)],
             deleted |-> BagCount(db.messages, hit)]

\* GetServerDeliveryFee: the row's fee, 0 when the box-type has no row
\* variant: a box type without a row yields -1 instead of 0
GetServerDeliveryFeeStrict(db, box) ==
    LET rows == {f \in db.server_fees : f.message_box = box}
    IN IF rows = {} THEN -1 ELSE (CHOOSE f \in rows : TRUE).delivery_fee

GetServerDeliveryFee(db, box) ==
    LET rows == {f \in db.server_fees : f.message_box = box}
    IN IF rows = {} THEN 0 ELSE (CHOOSE f \in rows : TRUE).delivery_fee

\* mutant: the smart default forgets the notifications box
smartDefaultFeeFlat(box) == 0

smartDefaultFee(box) == IF box = "notifications" THEN 10 ELSE 0

\* rows of message_permissions matching (recipient, sender, message_box);
\* sender = Null stands for the predicate "sender IS NULL"
PermRows(db, recipient, sender, box) ==
    {p \in DOMAIN db.message_permissions :
        p.recipient = recipient /\ p.sender = sender /\ p.message_box = box}

\* a row of message_permissions
PermRow(recipient, sender, box, fee) ==
    [recipient |-> recipient, sender |-> sender, message_box |-> box,
     recipient_fee |-> fee]

\* INSERT OR IGNORE ... VALUES (?, NULL, ?, ?): UNIQUE(recipient, sender,
\* message_box) never fires for a NULL sender (NULLs are distinct to a UNIQUE
\* constraint), so the row is always added
InsertOrIgnoreDefault(db, recipient, box, fee) ==
    [db EXCEPT !.message_permissions = BagAdd(@, PermRow(recipient, Null, box, fee))]

\* QueryRow(...).Scan(&fee): the fees the query may yield, one per matching row
ScanFees(rows) == {p.recipient_fee : p \in rows}

\* the fee of the row QueryRow yields; the rows of one key hold one fee
\* whenever the requests are served one at a time
ScanFee(rows) == CHOOSE f \in ScanFees(rows) : TRUE

\* mutant: the box-wide row is consulted before the sender-specific one
GetRecipientFeeWideFirst(db, recipient, sender, box) ==
    IF PermRows(db, recipient, Null, box) # {}
    THEN [db |-> db, fee |-> ScanFee(PermRows(db, recipient, Null, box))]
    ELSE IF sender # "" /\ PermRows(db, recipient, sender, box) # {}
    THEN [db |-> db, fee |-> ScanFee(PermRows(db, recipient, sender, box))]
    ELSE [db |-> InsertOrIgnoreDefault(db, recipient, box, smartDefaultFee(box)),
          fee |-> smartDefaultFee(box)]

\* variant: the row that is provisioned is a row of the asking sender
GetRecipientFeeSenderDefault(db, recipient, sender, box) ==
    IF sender # "" /\ PermRows(db, recipient, sender, box) # {}
    THEN [db |-> db, fee |-> ScanFee(PermRows(db, recipient, sender, box))]
    ELSE IF PermRows(db, recipient, Null, box) # {}
    THEN [db |-> db, fee |-> ScanFee(PermRows(db, recipient, Null, box))]
    ELSE [db |-> [db EXCEPT !.message_permissions =
                     BagAdd(@, PermRow(recipient, sender, box, smartDefaultFee(box)))],
          fee |-> smartDefaultFee(box)]

\* GetRecipientFee: sender-specific row, else box-wide row, else the smart
\* default, which is stored as the box-wide row
GetRecipientFee(db, recipient, sender, box) ==
    IF sender # "" /\ PermRows(db, recipient, sender, box) # {}
    THEN [db |-> db, fee |-> ScanFee(PermRows(db, recipient, sender, box))]
    ELSE IF PermRows(db, recipient, Null, box) # {}
    THEN [db |-> db, fee |-> ScanFee(PermRows(db, recipient, Null, box))]
    ELSE [db |-> InsertOrIgnoreDefault(db, recipient, box, smartDefaultFee(box)),
          fee |-> smartDefaultFee(box)]

\* UPDATE message_permissions SET recipient_fee = ? WHERE recipient = ? AND
\* sender (IS NULL | = ?) AND message_box = ?: every matching row takes the fee
UpdateFee(db, recipient, sender, box, fee) ==
    LET hit == PermRows(db, recipient, sender, box)
        n == BagCount(db.message_permissions, hit)
        rest == BagWithout(db.message_permissions, hit)
    IN [db EXCEPT !.message_permissions =
            IF n = 0 THEN rest
            ELSE rest (+) [r \in {PermRow(recipient, sender, box, fee)} |-> n]]

\* INSERT ... VALUES (?, NULL, ?, ?) / the insert arm of the upsert
InsertPerm(db, recipient, sender, box, fee) ==
    [db EXCEPT !.message_permissions = BagAdd(@, PermRow(recipient, sender, box, fee))]

\* INSERT ... ON CONFLICT(recipient, sender, message_box) DO UPDATE
UpsertSender(db, recipient, sender, box, fee) ==
    IF PermRows(db, recipient, sender, box) # {}
    THEN UpdateFee(db, recipient, sender, box, fee)
    ELSE InsertPerm(db, recipient, sender, box, fee)

\* mutant: the set always inserts a row
SetMessagePermissionInsertOnly(db, recipient, sender, box, fee) ==
    InsertPerm(db, recipient, sender, box, fee)

\* SetMessagePermission: update-else-insert for a nil sender, upsert otherwise
SetMessagePermission(db, recipient, sender, box, fee) ==
    IF sender = Null
    THEN IF PermRows(db, recipient, Null, box) # {}
         THEN UpdateFee(db, recipient, Null, box, fee)
         ELSE InsertPerm(db, recipient, Null, box, fee)
    ELSE UpsertSender(db, recipient, sender, box, fee)

\* GetPermission falling back to the box-wide row when the sender has no row
GetPermissionFallback(db, recipient, sender, box) ==
    LET own == PermRows(db, recipient, sender, box)
        wide == PermRows(db, recipient, Null, box)
    IN IF own # {}
       THEN [found |-> TRUE, sender |-> sender, fee |-> ScanFee(own)]
       ELSE IF wide # {}
       THEN [found |-> TRUE, sender |-> Null, fee |-> ScanFee(wide)]
       ELSE [found |-> FALSE, sender |-> Null, fee |-> 0]

\* GetPermission: the row of exactly (recipient, sender, box), sender = Null
\* standing for "sender IS NULL"; found is FALSE on sql.ErrNoRows
GetPermission(db, recipient, sender, box) ==
    IF PermRows(db, recipient, sender, box) = {}
    THEN [found |-> FALSE, sender |-> Null, fee |-> 0]
    ELSE [found |-> TRUE, sender |-> sender,
          fee |-> ScanFee(PermRows(db, recipient, sender, box))]

\* ORDER BY message_box ASC, CASE WHEN sender IS NULL THEN 0 ELSE 1 END,
\* sender ASC: the box types and the senders in that order
BoxTypesAsc == <<"inbox", "misc", "notifications", "payment_inbox">>
SendersAsc == <<Null, "A", "B">>

\* the rows of one (recipient, sender, box) key, each as often as the table
\* holds it; rows of one key come in created_at order, which the tables of
\* the model do not keep: any order
RECURSIVE RowsOfKey(_, _)
RowsOfKey(bag, rows) ==
    IF rows = {} THEN <<>>
    ELSE LET r == CHOOSE x \in rows : TRUE
         IN [i \in 1..bag[r] |-> r] \o RowsOfKey(bag, rows \ {r})

\* the rows of a recipient in the order of the data query; boxFilter = Null
\* is the nil filter
RECURSIVE OrderedPerms(_, _, _, _, _)
OrderedPerms(db, recipient, boxFilter, b, k) ==
    IF b > Len(BoxTypesAsc) THEN <<>>
    ELSE IF k > Len(SendersAsc) THEN OrderedPerms(db, recipient, boxFilter, b + 1, 1)
    ELSE (IF boxFilter = Null \/ boxFilter = BoxTypesAsc[b]
          THEN RowsOfKey(db.message_permissions,
                         PermRows(db, recipient, SendersAsc[k], BoxTypesAsc[b]))
          ELSE <<>>)
         \o OrderedPerms(db, recipient, boxFilter, b, k + 1)

\* variant: the total is the number of rows of the page
ListPermissionsPageCount(db, recipient, boxFilter, limit, offset) ==
    LET all == OrderedPerms(db, recipient, boxFilter, 1, 1)
        last == IF offset + limit < Len(all) THEN offset + limit ELSE Len(all)
    IN [perms |-> SubSeq(all, offset + 1, last),
        total |-> Len(SubSeq(all, offset + 1, last))]

\* ListPermissions: COUNT(*) of the matching rows, and the page LIMIT ? OFFSET ?
ListPermissions(db, recipient, boxFilter, limit, offset) ==
    LET all == OrderedPerms(db, recipient, boxFilter, 1, 1)
        last == IF offset + limit < Len(all) THEN offset + limit ELSE Len(all)
    IN [perms |-> SubSeq(all, offset + 1, last), total |-> Len(all)]

\* rows of device_registrations holding a token (fcm_token is UNIQUE)
DeviceRows(db, fcmToken) == {d \in db.device_registrations : d.fcm_token = fcmToken}

\* variant: a token registered again stays with its first identity
RegisterDeviceKeepOwner(db, identityKey, fcmToken, deviceID, platform) ==
    IF DeviceRows(db, fcmToken) = {}
    THEN [db EXCEPT !.device_registrations = @ \cup
            {[id |-> NextId(db.device_registrations), identity_key |-> identityKey,
              fcm_token |-> fcmToken, device_id |-> deviceID, platform |-> platform,
              active |-> TRUE]}]
    ELSE [db EXCEPT !.device_registrations =
            {IF d.fcm_token = fcmToken
             THEN [d EXCEPT !.device_id = deviceID, !.platform = platform,
                            !.active = TRUE]
             ELSE d : d \in @}]

\* RegisterDevice: INSERT ... ON CONFLICT(fcm_token) DO UPDATE SET identity_key,
\* device_id, platform, active = 1
RegisterDevice(db, identityKey, fcmToken, deviceID, platform) ==
    IF DeviceRows(db, fcmToken) = {}
    THEN [db EXCEPT !.device_registrations = @ \cup
            {[id |-> NextId(db.device_registrations), identity_key |-> identityKey,
              fcm_token |-> fcmToken, device_id |-> deviceID, platform |-> platform,
              active |-> TRUE]}]
    ELSE [db EXCEPT !.device_registrations =
            {IF d.fcm_token = fcmToken
             THEN [d EXCEPT !.identity_key = identityKey, !.device_id = deviceID,
                            !.platform = platform, !.active = TRUE]
             ELSE d : d \in @}]

\* RegisterDevice's result, res.LastInsertId(): the driver reads
\* sqlite3_last_insert_rowid of the connection that ran the statement. The
\* INSERT path sets it to the id of the new row. The DO UPDATE path leaves it
\* as it was: 0 on a connection of the pool that has inserted nothing, else
\* the rowid of the last row that connection inserted, in any table. Which
\* connection serves the call is the pool's choice, and the model keeps the
\* rowids of registrations and boxes: the result is any of these.
RegisterDeviceIds(db, fcmToken) ==
    IF DeviceRows(db, fcmToken) = {}
    THEN {NextId(db.device_registrations)}
    ELSE {0} \cup {d.id : d \in db.device_registrations}
             \cup {b.id : b \in db.messageBox}

\* the result when one connection serves every call and only registrations
\* are inserted: the id of the newest registration
RegisterDeviceIdSerial(db, fcmToken) ==
    IF DeviceRows(db, fcmToken) = {}
    THEN NextId(db.device_registrations)
    ELSE NextId(db.device_registrations) - 1

\* ListDevices: the registrations of an identity key
ListDevices(db, identityKey) ==
    {d \in db.device_registrations : d.identity_key = identityKey}

(***************************************************************************)
(* JSON values of the request fields (json.RawMessage) and their decoding   *)
(***************************************************************************)
JAbsent == [kind |-> "absent", val |-> <<>>]
JNull == [kind |-> "null", val |-> <<>>]
JNumber == [kind |-> "number", val |-> <<>>]
JStr(s) == [kind |-> "string", val |-> <<s>>]
JArr(q) == [kind |-> "array", val |-> q]

\* len(raw) == 0 || string(raw) == "null"
RawMissing(raw) == raw.kind \in {"absent", "null"}

\* json.Unmarshal into []string, and on failure into a single string;
\* the literal null decodes into the empty slice
ParseStrings(raw) ==
    CASE raw.kind = "array" -> [ok |-> TRUE, val |-> raw.val]
      [] raw.kind = "null" -> [ok |-> TRUE, val |-> <<>>]
      [] raw.kind = "string" -> [ok |-> TRUE, val |-> raw.val]
      [] OTHER -> [ok |-> FALSE, val |-> <<>>]

(***************************************************************************)
(* POST /sendMessage                                                        *)
(***************************************************************************)
\* what a handler leaves behind: the tables, and the response it wrote
Outcome(db, status, code, blocked, results) ==
    [db |-> db, status |-> status, code |-> code, blocked |-> blocked, results |-> results]

\* writeError
Refuse(db, status, code) == Outcome(db, status, code, <<>>, <<>>)

\* variant: the boxes are ensured for the recipient strings as given
RECURSIVE EnsureAllUntrimmed(_, _, _)
EnsureAllUntrimmed(db, recipients, boxType) ==
    IF recipients = <<>> THEN db
    ELSE EnsureAllUntrimmed(EnsureMessageBox(db, Head(recipients), boxType).db,
                            Tail(recipients), boxType)

\* "Ensure messageBox exists for each recipient"
RECURSIVE EnsureAll(_, _, _)
EnsureAll(db, recipients, boxType) ==
    IF recipients = <<>> THEN db
    ELSE EnsureAll(EnsureMessageBox(db, TrimSpace(Head(recipients)), boxType).db,
                   Tail(recipients), boxType)

\* "Fee evaluation": one feeRow per recipient, in order
RECURSIVE ResolveAll(_, _, _, _, _)
ResolveAll(db, recipients, senderKey, boxType, feeRows) ==
    IF recipients = <<>> THEN [db |-> db, feeRows |-> feeRows]
    ELSE LET recip == TrimSpace(Head(recipients))
             r == GetRecipientFee(db, recip, senderKey, boxType)
         IN ResolveAll(r.db, Tail(recipients), senderKey, boxType,
                Append(feeRows, [recipient |-> recip, recipientFee |-> r.fee,
                                 allowed |-> (r.fee # -1)]))

\* mutant: the scan for blocked recipients stops at the first one
BlockedFirst(feeRows) ==
    IF \E i \in 1..Len(feeRows) : ~feeRows[i].allowed
    THEN <<feeRows[CHOOSE i \in 1..Len(feeRows) :
                /\ ~feeRows[i].allowed
                /\ \A j \in 1..(i - 1) : feeRows[j].allowed].recipient>>
    ELSE <<>>

\* "Check blocked": the recipients of the rows that are not allowed
RECURSIVE Blocked(_)
Blocked(feeRows) ==
    IF feeRows = <<>> THEN <<>>
    ELSE IF ~Head(feeRows).allowed
         THEN <<Head(feeRows).recipient>> \o Blocked(Tail(feeRows))
         ELSE Blocked(Tail(feeRows))

\* requiresPayment := deliveryFee > 0 || anyRecipientFee
RequiresPayment(deliveryFee, feeRows) ==
    deliveryFee > 0 \/ \E i \in 1..Len(feeRows) : feeRows[i].recipientFee > 0

\* the payment field carries a payload
HasPayment(payment) == ~(payment = NoPayment \/ payment = JsonNull)

\* variant: a payment that came with the request is kept in every case
StoredBodyKeepPayment(body, payment, requiresPayment) ==
    [message |-> body,
     payment |-> IF HasPayment(payment) THEN payment ELSE NoPayment]

\* "Build stored body": the message, and the payment when one is kept
StoredBody(body, payment, requiresPayment) ==
    [message |-> body,
     payment |-> IF requiresPayment /\ HasPayment(payment) THEN payment ELSE NoPayment]

\* "Store messages": one insert per feeRow, keyed by the i-th message id
RECURSIVE StoreAll(_, _, _, _, _, _, _)
StoreAll(db, feeRows, messageIDs, i, senderKey, boxType, stored) ==
    IF i > Len(feeRows) THEN [db |-> db, results |-> <<>>]
    ELSE LET fr == feeRows[i]
             mbID == GetMessageBoxID(db, fr.recipient, boxType)
             db1 == InsertMessage(db, messageIDs[i], mbID, senderKey, fr.recipient, stored)
             rest == StoreAll(db1, feeRows, messageIDs, i + 1, senderKey, boxType, stored)
         IN [db |-> rest.db,
             results |-> <<[recipient |-> fr.recipient, messageId |-> messageIDs[i]]>>
                            \o rest.results]

\* variant: the message ids are paired with the recipients in reverse order
AdmitReversedIds(db, senderKey, req, recipients, messageIDs) ==
    LET boxType == TrimSpace(req.messageBox)
        db1 == EnsureAll(db, recipients, boxType)
        deliveryFee == GetServerDeliveryFee(db1, boxType)
        res == ResolveAll(db1, recipients, senderKey, boxType, <<>>)
        blocked == Blocked(res.feeRows)
        requiresPayment == RequiresPayment(deliveryFee, res.feeRows)
        reversed == [i \in 1..Len(messageIDs) |-> messageIDs[Len(messageIDs) + 1 - i]]
        st == StoreAll(res.db, res.feeRows, reversed, 1, senderKey, boxType,
                       StoredBody(req.body, req.payment, requiresPayment))
    IN IF Len(blocked) > 0
       THEN Outcome(res.db, 403, "ERR_DELIVERY_BLOCKED", blocked, <<>>)
       ELSE IF requiresPayment /\ ~HasPayment(req.payment)
       THEN Refuse(res.db, 400, "ERR_MISSING_PAYMENT_TX")
       ELSE Outcome(st.db, 200, "success", <<>>, st.results)

\* variant: the payment check comes before the blocked check
AdmitPaymentFirst(db, senderKey, req, recipients, messageIDs) ==
    LET boxType == TrimSpace(req.messageBox)
        db1 == EnsureAll(db, recipients, boxType)
        deliveryFee == GetServerDeliveryFee(db1, boxType)
        res == ResolveAll(db1, recipients, senderKey, boxType, <<>>)
        blocked == Blocked(res.feeRows)
        requiresPayment == RequiresPayment(deliveryFee, res.feeRows)
        st == StoreAll(res.db, res.feeRows, messageIDs, 1, senderKey, boxType,
                       StoredBody(req.body, req.payment, requiresPayment))
    IN IF requiresPayment /\ ~HasPayment(req.payment)
       THEN Refuse(res.db, 400, "ERR_MISSING_PAYMENT_TX")
       ELSE IF Len(blocked) > 0
       THEN Outcome(res.db, 403, "ERR_DELIVERY_BLOCKED", blocked, <<>>)
       ELSE Outcome(st.db, 200, "success", <<>>, st.results)

\* variant: the messages are stored before the blocked and payment checks
AdmitStoreFirst(db, senderKey, req, recipients, messageIDs) ==
    LET boxType == TrimSpace(req.messageBox)
        db1 == EnsureAll(db, recipients, boxType)
        deliveryFee == GetServerDeliveryFee(db1, boxType)
        res == ResolveAll(db1, recipients, senderKey, boxType, <<>>)
        blocked == Blocked(res.feeRows)
        requiresPayment == RequiresPayment(deliveryFee, res.feeRows)
        st == StoreAll(res.db, res.feeRows, messageIDs, 1, senderKey, boxType,
                       StoredBody(req.body, req.payment, requiresPayment))
    IN IF Len(blocked) > 0
       THEN Outcome(st.db, 403, "ERR_DELIVERY_BLOCKED", blocked, <<>>)
       ELSE IF requiresPayment /\ ~HasPayment(req.payment)
       THEN Refuse(st.db, 400, "ERR_MISSING_PAYMENT_TX")
       ELSE Outcome(st.db, 200, "success", <<>>, st.results)

\* admission of a request that passed validation
Admit(db, senderKey, req, recipients, messageIDs) ==
    LET boxType == TrimSpace(req.messageBox)
        db1 == EnsureAll(db, recipients, boxType)
        deliveryFee == GetServerDeliveryFee(db1, boxType)
        res == ResolveAll(db1, recipients, senderKey, boxType, <<>>)
        blocked == Blocked(res.feeRows)
        requiresPayment == RequiresPayment(deliveryFee, res.feeRows)
        st == StoreAll(res.db, res.feeRows, messageIDs, 1, senderKey, boxType,
                       StoredBody(req.body, req.payment, requiresPayment))
    IN IF Len(blocked) > 0
       THEN Outcome(res.db, 403, "ERR_DELIVERY_BLOCKED", blocked, <<>>)
       ELSE IF requiresPayment /\ ~HasPayment(req.payment)
       THEN Refuse(res.db, 400, "ERR_MISSING_PAYMENT_TX")
       ELSE Outcome(st.db, 200, "success", <<>>, st.results)

\* variant: the body is validated before the box type
SendMessageBodyFirst(db, senderKey, req) ==
    LET recipientsRaw == IF RawMissing(req.recipients) THEN req.recipient
                         ELSE req.recipients
        rcp == ParseStrings(recipientsRaw)
        ids == ParseStrings(req.messageId)
    IN IF senderKey = NoIdentity THEN Refuse(db, 401, "ERR_AUTH_REQUIRED")
       ELSE IF ~req.hasMessage THEN Refuse(db, 400, "ERR_MESSAGE_REQUIRED")
       ELSE IF req.body \in {"", "\"\"", "null"}
       THEN Refuse(db, 400, "ERR_INVALID_MESSAGE_BODY")
       ELSE IF TrimSpace(req.messageBox) = "" THEN Refuse(db, 400, "ERR_INVALID_MESSAGEBOX")
       ELSE IF RawMissing(recipientsRaw) THEN Refuse(db, 400, "ERR_RECIPIENT_REQUIRED")
       ELSE IF ~rcp.ok THEN Refuse(db, 400, "ERR_INVALID_RECIPIENT_KEY")
       ELSE IF ~ids.ok THEN Refuse(db, 400, "ERR_MESSAGEID_REQUIRED")
       ELSE IF Len(rcp.val) > 1 /\ Len(ids.val) = 1
       THEN Refuse(db, 400, "ERR_MESSAGEID_COUNT_MISMATCH")
       ELSE IF Len(ids.val) # Len(rcp.val)
       THEN Refuse(db, 400, "ERR_MESSAGEID_COUNT_MISMATCH")
       ELSE IF \E i \in 1..Len(ids.val) : TrimSpace(ids.val[i]) = ""
       THEN Refuse(db, 400, "ERR_INVALID_MESSAGEID")
       ELSE IF \E i \in 1..Len(rcp.val) : ~isValidPubKey(TrimSpace(rcp.val[i]))
       THEN Refuse(db, 400, "ERR_INVALID_RECIPIENT_KEY")
       ELSE Admit(db, senderKey, req, rcp.val, ids.val)

\* variant: the boxes are ensured before the recipient keys are validated
SendMessageEnsureEarly(db, senderKey, req) ==
    LET recipientsRaw == IF RawMissing(req.recipients) THEN req.recipient
                         ELSE req.recipients
        rcp == ParseStrings(recipientsRaw)
        ids == ParseStrings(req.messageId)
    IN IF senderKey = NoIdentity THEN Refuse(db, 401, "ERR_AUTH_REQUIRED")
       ELSE IF ~req.hasMessage THEN Refuse(db, 400, "ERR_MESSAGE_REQUIRED")
       ELSE IF TrimSpace(req.messageBox) = "" THEN Refuse(db, 400, "ERR_INVALID_MESSAGEBOX")
       ELSE IF req.body \in {"", "\"\"", "null"}
       THEN Refuse(db, 400, "ERR_INVALID_MESSAGE_BODY")
       ELSE IF RawMissing(recipientsRaw) THEN Refuse(db, 400, "ERR_RECIPIENT_REQUIRED")
       ELSE IF ~rcp.ok THEN Refuse(db, 400, "ERR_INVALID_RECIPIENT_KEY")
       ELSE IF ~ids.ok THEN Refuse(db, 400, "ERR_MESSAGEID_REQUIRED")
       ELSE IF Len(rcp.val) > 1 /\ Len(ids.val) = 1
       THEN Refuse(db, 400, "ERR_MESSAGEID_COUNT_MISMATCH")
       ELSE IF Len(ids.val) # Len(rcp.val)
       THEN Refuse(db, 400, "ERR_MESSAGEID_COUNT_MISMATCH")
       ELSE IF \E i \in 1..Len(ids.val) : TrimSpace(ids.val[i]) = ""
       THEN Refuse(db, 400, "ERR_INVALID_MESSAGEID")
       ELSE IF \E i \in 1..Len(rcp.val) : ~isValidPubKey(TrimSpace(rcp.val[i]))
       THEN Refuse(EnsureAll(db, rcp.val, TrimSpace(req.messageBox)), 400,
                   "ERR_INVALID_RECIPIENT_KEY")
       ELSE Admit(db, senderKey, req, rcp.val, ids.val)

\* the handler: validation in the order of the code, then admission
SendMessage(db, senderKey, req) ==
    LET recipientsRaw == IF RawMissing(req.recipients) THEN req.recipient
                         ELSE req.recipients
        rcp == ParseStrings(recipientsRaw)
        ids == ParseStrings(req.messageId)
    IN IF senderKey = NoIdentity THEN Refuse(db, 401, "ERR_AUTH_REQUIRED")
       ELSE IF ~req.hasMessage THEN Refuse(db, 400, "ERR_MESSAGE_REQUIRED")
       ELSE IF TrimSpace(req.messageBox) = "" THEN Refuse(db, 400, "ERR_INVALID_MESSAGEBOX")
       ELSE IF req.body \in {"", "\"\"", "null"}
       THEN Refuse(db, 400, "ERR_INVALID_MESSAGE_BODY")
       ELSE IF RawMissing(recipientsRaw) THEN Refuse(db, 400, "ERR_RECIPIENT_REQUIRED")
       ELSE IF ~rcp.ok THEN Refuse(db, 400, "ERR_INVALID_RECIPIENT_KEY")
       ELSE IF ~ids.ok THEN Refuse(db, 400, "ERR_MESSAGEID_REQUIRED")
       ELSE IF Len(rcp.val) > 1 /\ Len(ids.val) = 1
       THEN Refuse(db, 400, "ERR_MESSAGEID_COUNT_MISMATCH")
       ELSE IF Len(ids.val) # Len(rcp.val)
       THEN Refuse(db, 400, "ERR_MESSAGEID_COUNT_MISMATCH")
       ELSE IF \E i \in 1..Len(ids.val) : TrimSpace(ids.val[i]) = ""
       THEN Refuse(db, 400, "ERR_INVALID_MESSAGEID")
       ELSE IF \E i \in 1..Len(rcp.val) : ~isValidPubKey(TrimSpace(rcp.val[i]))
       THEN Refuse(db, 400, "ERR_INVALID_RECIPIENT_KEY")
       ELSE Admit(db, senderKey, req, rcp.val, ids.val)

\* the handler stopped (process crash) in "Store messages" after the inserts
\* of the first n recipients: every statement up to there has run (none is in
\* a transaction), no response was written
AdmitInterrupted(db, senderKey, req, recipients, messageIDs, n) ==
    LET boxType == TrimSpace(req.messageBox)
        db1 == EnsureAll(db, recipients, boxType)
        deliveryFee == GetServerDeliveryFee(db1, boxType)
        res == ResolveAll(db1, recipients, senderKey, boxType, <<>>)
        requiresPayment == RequiresPayment(deliveryFee, res.feeRows)
        st == StoreAll(res.db, SubSeq(res.feeRows, 1, n), messageIDs, 1, senderKey,
                       boxType, StoredBody(req.body, req.payment, requiresPayment))
    IN Outcome(st.db, 0, "interrupted", <<>>, <<>>)

\* a request that would reach "Store messages" is interrupted there after n
\* inserts; a request refused before is answered as ever
SendMessageInterrupted(db, senderKey, req, n) ==
    LET recipientsRaw == IF RawMissing(req.recipients) THEN req.recipient
                         ELSE req.recipients
    IN IF SendMessage(db, senderKey, req).code = "success"
       THEN AdmitInterrupted(db, senderKey, req, ParseStrings(recipientsRaw).val,
                             ParseStrings(req.messageId).val, n)
       ELSE SendMessage(db, senderKey, req)

(***************************************************************************)
(* POST /acknowledgeMessage                                                 *)
(***************************************************************************)
AcknowledgeMessage(db, identityKey, messageIDs) ==
    LET ack == AcknowledgeMessages(db, identityKey, messageIDs)
    IN IF identityKey = NoIdentity THEN Refuse(db, 401, "ERR_AUTH_REQUIRED")
       ELSE IF Len(messageIDs) = 0 THEN Refuse(db, 400, "ERR_MESSAGE_ID_REQUIRED")
       ELSE IF ack.deleted = 0 THEN Refuse(ack.db, 400, "ERR_INVALID_ACKNOWLEDGMENT")
       ELSE Outcome(ack.db, 200, "success", <<>>, <<>>)

(***************************************************************************)
(* POST /permissions/set                                                    *)
(***************************************************************************)
\* variant: with a sender given, the row is written for the sender as
\* recipient and the caller as sender
SetPermissionSwapped(db, identityKey, req) ==
    IF identityKey = NoIdentity THEN Refuse(db, 401, "ERR_AUTHENTICATION_REQUIRED")
    ELSE IF req.messageBox = "" \/ ~req.hasFee THEN Refuse(db, 400, "ERR_INVALID_REQUEST")
    ELSE IF req.sender # Null /\ ~isValidPubKey(req.sender)
    THEN Refuse(db, 400, "ERR_INVALID_PUBLIC_KEY")
    ELSE Outcome(IF req.sender = Null
                 THEN SetMessagePermission(db, identityKey, Null, req.messageBox,
                                           req.recipientFee)
                 ELSE SetMessagePermission(db, req.sender, identityKey, req.messageBox,
                                           req.recipientFee),
                 200, "success", <<>>, <<>>)

\* req.sender is Null for a request without the sender field; req.hasFee is
\* FALSE when recipientFee is missing
SetPermission(db, identityKey, req) ==
    IF identityKey = NoIdentity THEN Refuse(db, 401, "ERR_AUTHENTICATION_REQUIRED")
    ELSE IF req.messageBox = "" \/ ~req.hasFee THEN Refuse(db, 400, "ERR_INVALID_REQUEST")
    ELSE IF req.sender # Null /\ ~isValidPubKey(req.sender)
    THEN Refuse(db, 400, "ERR_INVALID_PUBLIC_KEY")
    ELSE Outcome(SetMessagePermission(db, identityKey, req.sender, req.messageBox,
                                      req.recipientFee),
                 200, "success", <<>>, <<>>)

(***************************************************************************)
(* GET /permissions/quote                                                   *)
(***************************************************************************)
\* status label of a fee
\* variant: every negative fee counts as blocked
FeeStatusNegativeBlocked(fee) ==
    IF fee < 0 THEN "blocked" ELSE IF fee > 0 THEN "payment_required" ELSE "always_allow"

FeeStatus(fee) ==
    IF fee = -1 THEN "blocked" ELSE IF fee > 0 THEN "payment_required" ELSE "always_allow"

\* the multi-recipient loop; the recipient strings reach GetRecipientFee as given
RECURSIVE QuoteAll(_, _, _, _, _, _)
QuoteAll(db, recipients, senderKey, box, deliveryFee, quotes) ==
    IF recipients = <<>> THEN [db |-> db, quotes |-> quotes]
    ELSE LET rec == Head(recipients)
             r == GetRecipientFee(db, rec, senderKey, box)
         IN QuoteAll(r.db, Tail(recipients), senderKey, box, deliveryFee,
                Append(quotes, [recipient |-> rec, messageBox |-> box,
                                deliveryFee |-> deliveryFee, recipientFee |-> r.fee,
                                status |-> FeeStatus(r.fee)]))

RECURSIVE BlockedRecipients(_)
BlockedRecipients(quotes) ==
    IF quotes = <<>> THEN <<>>
    ELSE IF Head(quotes).status = "blocked"
         THEN <<Head(quotes).recipient>> \o BlockedRecipients(Tail(quotes))
         ELSE BlockedRecipients(Tail(quotes))

RECURSIVE SumRecipientFees(_)
SumRecipientFees(quotes) ==
    IF quotes = <<>> THEN 0
    ELSE (IF Head(quotes).recipientFee > 0 THEN Head(quotes).recipientFee ELSE 0)
            + SumRecipientFees(Tail(quotes))

RECURSIVE SumDeliveryFees(_)
SumDeliveryFees(quotes) ==
    IF quotes = <<>> THEN 0
    ELSE Head(quotes).deliveryFee + SumDeliveryFees(Tail(quotes))

\* the handler; a quote is [quotes, totals] next to the common outcome fields
GetQuote(db, senderKey, messageBoxParam, recipients) ==
    LET deliveryFee == GetServerDeliveryFee(db, messageBoxParam)
        q == QuoteAll(db, recipients, senderKey, messageBoxParam, deliveryFee, <<>>)
        none == [db |-> db, status |-> 400, blocked |-> <<>>, results |-> <<>>,
                 quotes |-> <<>>, deliveryFees |-> 0, recipientFees |-> 0, total |-> 0]
    IN IF senderKey = NoIdentity
       THEN [none EXCEPT !.status = 401] @@ [code |-> "ERR_AUTHENTICATION_REQUIRED"]
       ELSE IF messageBoxParam = "" \/ Len(recipients) = 0
       THEN none @@ [code |-> "ERR_MISSING_PARAMETERS"]
       ELSE IF \E i \in 1..Len(recipients) : ~isValidPubKey(TrimSpace(recipients[i]))
       THEN none @@ [code |-> "ERR_INVALID_PUBLIC_KEY"]
       ELSE [db |-> q.db, status |-> 200, code |-> "success",
             blocked |-> IF Len(recipients) = 1 THEN <<>> ELSE BlockedRecipients(q.quotes),
             results |-> <<>>, quotes |-> q.quotes,
             deliveryFees |-> SumDeliveryFees(q.quotes),
             recipientFees |-> SumRecipientFees(q.quotes),
             total |-> SumDeliveryFees(q.quotes) + SumRecipientFees(q.quotes)]

(***************************************************************************)
(* POST /listMessages                                                       *)
(***************************************************************************)
\* the handler; listed is the set of messages of the response
ListMessagesHandler(db, identityKey, messageBoxParam) ==
    LET mbID == GetMessageBoxID(db, identityKey, messageBoxParam)
    IN IF identityKey = NoIdentity
       THEN [db |-> db, status |-> 401, code |-> "ERR_AUTH_REQUIRED", listed |-> {}]
       ELSE IF messageBoxParam = ""
       THEN [db |-> db, status |-> 400, code |-> "ERR_MESSAGEBOX_REQUIRED", listed |-> {}]
       ELSE IF mbID = 0
       THEN [db |-> db, status |-> 200, code |-> "success", listed |-> {}]
       ELSE [db |-> db, status |-> 200, code |-> "success",
             listed |-> {[messageId |-> m.messageId, body |-> m.body, sender |-> m.sender] :
                            m \in ListMessages(db, identityKey, mbID)}]

(***************************************************************************)
(* GET /permissions/get and GET /permissions/list                           *)
(***************************************************************************)
\* a query parameter that is not given reads as ""
NoParam == ""

\* the handler of /permissions/get; permission is the set holding the row
\* of the response, empty when the response carries none
GetPermissionHandler(db, identityKey, messageBoxParam, senderParam) ==
    LET sender == IF senderParam = NoParam THEN Null ELSE senderParam
        perm == GetPermission(db, identityKey, sender, messageBoxParam)
        none == [db |-> db, status |-> 400, code |-> "", permission |-> {}]
    IN IF identityKey = NoIdentity
       THEN [none EXCEPT !.status = 401, !.code = "ERR_AUTHENTICATION_REQUIRED"]
       ELSE IF messageBoxParam = NoParam
       THEN [none EXCEPT !.code = "ERR_MISSING_PARAMETERS"]
       ELSE IF senderParam # NoParam /\ ~isValidPubKey(senderParam)
       THEN [none EXCEPT !.code = "ERR_INVALID_PUBLIC_KEY"]
       ELSE [db |-> db, status |-> 200, code |-> "success",
             permission |-> IF perm.found
                            THEN {[sender |-> perm.sender, messageBox |-> messageBoxParam,
                                   recipientFee |-> perm.fee,
                                   status |-> FeeStatus(perm.fee)]}
                            ELSE {}]

\* the handler of /permissions/list; limit and offset are the parsed
\* parameters: [given |-> FALSE], or [given |-> TRUE, ok |-> Atoi succeeded,
\* v |-> the number]
ListPermissionsHandler(db, identityKey, messageBoxParam, limit, offset) ==
    LET boxFilter == IF messageBoxParam = NoParam THEN Null ELSE messageBoxParam
        lim == IF limit.given THEN limit.v ELSE 100
        off == IF offset.given THEN offset.v ELSE 0
        res == ListPermissions(db, identityKey, boxFilter, lim, off)
        none == [db |-> db, status |-> 400, code |-> "", permissions |-> <<>>,
                 totalCount |-> 0]
    IN IF identityKey = NoIdentity
       THEN [none EXCEPT !.status = 401, !.code = "ERR_UNAUTHORIZED"]
       ELSE IF limit.given /\ ~(limit.ok /\ limit.v >= 1 /\ limit.v <= 1000)
       THEN [none EXCEPT !.code = "ERR_INVALID_LIMIT"]
       ELSE IF offset.given /\ ~(offset.ok /\ offset.v >= 0)
       THEN [none EXCEPT !.code = "ERR_INVALID_OFFSET"]
       ELSE [db |-> db, status |-> 200, code |-> "success",
             permissions |-> [i \in 1..Len(res.perms) |->
                                [sender |-> res.perms[i].sender,
                                 messageBox |-> res.perms[i].message_box,
                                 recipientFee |-> res.perms[i].recipient_fee]],
             totalCount |-> res.total]

(***************************************************************************)
(* POST /registerDevice and GET /devices                                    *)
(***************************************************************************)
\* a push token is a string of characters; the handlers look at its length
\* and its tail
ShortToken == <<"t", "k", "1">>
LongToken == <<"l", "o", "n", "g", "t", "o", "k", "e", "n", "0", "0", "0", "1">>
NoToken == <<>>
Platforms == {"ios", "android", "web"}

\* mutant: the handler forgets to look at the identity
RegisterDeviceHandlerNoAuth(db, identityKey, req) ==
    IF req.fcmToken = NoToken THEN Refuse(db, 400, "ERR_INVALID_FCM_TOKEN")
    ELSE IF req.platform # Null /\ req.platform \notin Platforms
    THEN Refuse(db, 400, "ERR_INVALID_PLATFORM")
    ELSE Outcome(RegisterDevice(db, identityKey, req.fcmToken, req.deviceId,
                                req.platform),
                 200, "success", <<>>, <<>>)

\* the handler; req.deviceId and req.platform are Null when not given
RegisterDeviceHandler(db, identityKey, req) ==
    IF identityKey = NoIdentity THEN Refuse(db, 401, "ERR_AUTHENTICATION_REQUIRED")
    ELSE IF req.fcmToken = NoToken THEN Refuse(db, 400, "ERR_INVALID_FCM_TOKEN")
    ELSE IF req.platform # Null /\ req.platform \notin Platforms
    THEN Refuse(db, 400, "ERR_INVALID_PLATFORM")
    ELSE Outcome(RegisterDevice(db, identityKey, req.fcmToken, req.deviceId,
                                req.platform),
                 200, "success", <<>>, <<>>)

\* the token as the response shows it: "..." and the last 10 characters
\* when it is longer than 10
MaskToken(token) ==
    IF Len(token) > 10 THEN <<".", ".", ".">> \o SubSeq(token, Len(token) - 9, Len(token))
    ELSE token

\* the handler of /devices
ListDevicesHandler(db, identityKey) ==
    IF identityKey = NoIdentity
    THEN [db |-> db, status |-> 401, code |-> "ERR_AUTHENTICATION_REQUIRED", devices |-> {}]
    ELSE [db |-> db, status |-> 200, code |-> "success",
          devices |-> {[id |-> d.id, deviceId |-> d.device_id, platform |-> d.platform,
                        fcmToken |-> MaskToken(d.fcm_token), active |-> d.active] :
                          d \in ListDevices(db, identityKey)}]

(***************************************************************************)
(* The requests the clients issue                                           *)
(***************************************************************************)
SendReq(box, body, recipient, recipients, messageId, payment) ==
    [hasMessage |-> TRUE, messageBox |-> box, body |-> body, recipient |-> recipient,
     recipients |-> recipients, messageId |-> messageId, payment |-> payment]

\* one recipient with one id (the single form), and the list <<A, B>> with
\* one id each
Sends(boxes, bodies, ids, pays) ==
    {SendReq(box, body, JStr(r), JAbsent, JStr(m), pay) :
        box \in boxes, body \in bodies, r \in Keys, m \in ids, pay \in pays}
    \cup
    {SendReq(box, body, JAbsent, JArr(<<"A", "B">>), JArr(<<m, n>>), pay) :
        box \in boxes, body \in bodies, m \in ids, n \in ids, pay \in pays}

\* the bodies of /permissions/set
Sets(senders, boxes, fees) ==
    {[sender |-> s, messageBox |-> box, hasFee |-> TRUE, recipientFee |-> fee] :
        s \in senders, box \in boxes, fee \in fees}

\* the messageIds arrays of /acknowledgeMessage
AckRequests == {<<>>, <<"m1">>, <<"m2">>, <<"m1", "m2">>}

\* the recipient parameters of /permissions/quote
QuoteRecipients == {<<"A">>, <<"B">>, <<"A", "B">>}

\* the bodies of /registerDevice
RegisterReqs ==
    {[fcmToken |-> t, deviceId |-> d, platform |-> pf] :
        t \in {ShortToken, LongToken}, d \in {Null, "d1"}, pf \in {Null, "ios"}}

\* a limit or offset parameter: not given, or given as a number
NotGiven == [given |-> FALSE, ok |-> TRUE, v |-> 0]
Given(n) == [given |-> TRUE, ok |-> TRUE, v |-> n]

(***************************************************************************)
(* State machine: one request is served per step                            *)
(***************************************************************************)
Init ==
    /\ messageBox = MigratedDB.messageBox
    /\ messages = MigratedDB.messages
    /\ message_permissions = MigratedDB.message_permissions
    /\ server_fees = MigratedDB.server_fees
    /\ device_registrations = MigratedDB.device_registrations
    /\ workers = <<>>

\* the tables become those of an outcome; the permission table stays in its cap
Commit(o) ==
    /\ BagCardinality(o.db.message_permissions) <= MaxPermRows
    /\ messageBox' = o.db.messageBox
    /\ messages' = o.db.messages
    /\ message_permissions' = o.db.message_permissions
    /\ server_fees' = o.db.server_fees
    /\ device_registrations' = o.db.device_registrations
    /\ UNCHANGED workers

SendOf(callers, reqs) ==
    \E senderKey \in callers, req \in reqs : Commit(SendMessage(DB, senderKey, req))

AcknowledgeOf(callers, idss) ==
    \E identityKey \in callers, ids \in idss :
        Commit(AcknowledgeMessage(DB, identityKey, ids))

SetOf(callers, reqs) ==
    \E identityKey \in callers, req \in reqs : Commit(SetPermission(DB, identityKey, req))

QuoteOf(callers, boxes, rcps) ==
    \E senderKey \in callers, box \in boxes, r \in rcps :
        Commit(GetQuote(DB, senderKey, box, r))

\* the list <<A, B>> with the ids <<m1, m2>>
PairSends(boxes, pays) ==
    {SendReq(box, "b1", JAbsent, JArr(<<"A", "B">>), JArr(<<"m1", "m2">>), pay) :
        box \in boxes, pay \in pays}

(***************************************************************************)
(* Spec: the message store. Both identities send to either or both inboxes *)
(* and to B's notifications box, with any id and body; recipients           *)
(* acknowledge; A may block its inbox.                                      *)
(***************************************************************************)
StoreSends ==
    {req \in Sends(BoxTypes, Bodies, MsgIds, {"p1"}) :
        req.messageBox = "notifications" => req.recipient = JStr("B")}

StoreSend == SendOf(Keys, StoreSends)

\* sends that name no recipient: the recipients field null or an empty list,
\* with the message ids a client may pair with it
BadSends ==
    {SendReq("inbox", "b1", JAbsent, rcps, ids, "p1") :
        rcps \in {JNull, JArr(<<>>)},
        ids \in {JStr("m1"), JNull, JArr(<<>>), JArr(<<"m1">>)}}

StoreBadSend == SendOf(Keys, BadSends)

\* a send to <<A, B>> is cut short before its first or its second insert
StoreCrash ==
    \E senderKey \in Keys, req \in StoreSends, n \in {0, 1} :
        /\ req.recipients.kind = "array"
        /\ Commit(SendMessageInterrupted(DB, senderKey, req, n))
StoreAcknowledge == AcknowledgeOf(Keys, AckRequests)
StoreBlock == SetOf({"A"}, Sets({Null}, {"inbox"}, {-1}))

\* the server is started again on the stored database and runs Migrate
StoreMigrate == Commit([db |-> Migrate(DB)])

Next ==
    \/ StoreSend \/ StoreBadSend \/ StoreCrash \/ StoreAcknowledge \/ StoreBlock
    \/ StoreMigrate

Spec == Init /\ [][Next]_vars

(***************************************************************************)
(* SpecFees: the permission ledger. Recipients set any fee for any sender   *)
(* or box-wide on their inbox, senders ask for quotes and send to <<A, B>>  *)
(* with and without a payment.                                              *)
(***************************************************************************)
FeesSet == SetOf(Keys, Sets(Keys \cup {Null}, {"inbox"}, Fees))
FeesQuote == QuoteOf(Keys, BoxTypes, QuoteRecipients)
FeesSend == SendOf(Keys, PairSends(BoxTypes, Payments))

NextFees == FeesSet \/ FeesQuote \/ FeesSend

SpecFees == Init /\ [][NextFees]_vars

(***************************************************************************)
(* SpecLedger: the permission table alone. Recipients set box-wide and      *)
(* sender-specific fees for both box types, and single-recipient quotes     *)
(* provision default rows.                                                  *)
(***************************************************************************)
LedgerSet == SetOf(Keys, Sets(Keys \cup {Null}, BoxTypes, {-1, 5}))
LedgerQuote == QuoteOf(Keys, BoxTypes, {<<"A">>, <<"B">>})

NextLedger == LedgerSet \/ LedgerQuote

SpecLedger == Init /\ [][NextLedger]_vars

(***************************************************************************)
(* SpecQuote: quotes over a ledger of inbox fees. Recipients set fees for    *)
(* their inbox, and senders ask quotes for one or two recipients in both    *)
(* box types.                                                               *)
(***************************************************************************)
QuoteSet == SetOf(Keys, Sets(Keys \cup {Null}, {"inbox"}, Fees))
QuoteAsk == QuoteOf(Keys, BoxTypes, QuoteRecipients)

NextQuote == QuoteSet \/ QuoteAsk

SpecQuote == Init /\ [][NextQuote]_vars

(***************************************************************************)
(* SpecBoxes: messages and their boxes. Senders send body b1 with a payment *)
(* to A, to B, to A written with leading white space, or to <<A, B>>, in    *)
(* both box types, and recipients acknowledge.                              *)
(***************************************************************************)
BoxSends ==
    Sends(BoxTypes, {"b1"}, MsgIds, {"p1"})
    \cup {SendReq(box, "b1", JStr(PaddedA), JAbsent, JStr(m), "p1") :
             box \in BoxTypes, m \in MsgIds}

BoxSend == SendOf(Keys, BoxSends)
BoxAcknowledge == AcknowledgeOf(Keys, AckRequests)

NextBoxes == BoxSend \/ BoxAcknowledge

SpecBoxes == Init /\ [][NextBoxes]_vars

(***************************************************************************)
(* SpecGate: the admission of sends. Recipients block their inbox or ask 5  *)
(* for it, and senders send to <<A, B>> with and without a payment.         *)
(***************************************************************************)
GateSet == SetOf(Keys, Sets(Keys \cup {Null}, {"inbox"}, {-1, 5}))
GateSend == SendOf(Keys, PairSends({"inbox"}, {NoPayment, "p1"}))

NextGate == GateSet \/ GateSend

SpecGate == Init /\ [][NextGate]_vars

(***************************************************************************)
(* SpecConc: two requests resolve a fee at the same time. Each statement of *)
(* GetRecipientFee is one step (a statement is atomic in the storage        *)
(* engine, a call is not); workers[w] is the position of worker w.          *)
(***************************************************************************)
WorkerIds == {1, 2}

Idle == [pc |-> "idle", recipient |-> "", sender |-> "", box |-> "", fee |-> 0]

InitConc ==
    /\ messageBox = MigratedDB.messageBox
    /\ messages = MigratedDB.messages
    /\ message_permissions = MigratedDB.message_permissions
    /\ server_fees = MigratedDB.server_fees
    /\ device_registrations = MigratedDB.device_registrations
    /\ workers = [w \in WorkerIds |-> Idle]

Tables == <<messageBox, messages, server_fees, device_registrations>>

\* a handler calls GetRecipientFee(recipient, sender, box)
CallGetRecipientFee(w) ==
    /\ workers[w].pc = "idle"
    /\ \E recipient \in Keys, sender \in Keys, box \in BoxTypes :
        workers' = [workers EXCEPT ![w] =
            [pc |-> "senderRow", recipient |-> recipient, sender |-> sender,
             box |-> box, fee |-> 0]]
    /\ UNCHANGED <<Tables, message_permissions>>

\* "Try sender-specific first": return the row's fee, or go on
SelectSenderRow(w) ==
    LET c == workers[w]
        rows == PermRows(DB, c.recipient, c.sender, c.box)
    IN /\ c.pc = "senderRow"
       /\ IF c.sender # "" /\ rows # {}
          THEN \E f \in ScanFees(rows) :
                  workers' = [workers EXCEPT ![w].pc = "done", ![w].fee = f]
          ELSE workers' = [workers EXCEPT ![w].pc = "defaultRow"]
       /\ UNCHANGED <<Tables, message_permissions>>

\* "Try box-wide default": return the row's fee, or go on
SelectDefaultRow(w) ==
    LET c == workers[w]
        rows == PermRows(DB, c.recipient, Null, c.box)
    IN /\ c.pc = "defaultRow"
       /\ IF rows # {}
          THEN \E f \in ScanFees(rows) :
                  workers' = [workers EXCEPT ![w].pc = "done", ![w].fee = f]
          ELSE workers' = [workers EXCEPT ![w].pc = "insert"]
       /\ UNCHANGED <<Tables, message_permissions>>

\* "Auto-create box-wide default": insert-or-ignore, return the computed fee
InsertDefaultRow(w) ==
    LET c == workers[w]
    IN /\ c.pc = "insert"
       /\ message_permissions' =
            InsertOrIgnoreDefault(DB, c.recipient, c.box,
                                  smartDefaultFee(c.box)).message_permissions
       /\ workers' = [workers EXCEPT ![w].pc = "done",
                                     ![w].fee = smartDefaultFee(c.box)]
       /\ UNCHANGED Tables

NextConc ==
    \E w \in WorkerIds :
        \/ CallGetRecipientFee(w)
        \/ SelectSenderRow(w)
        \/ SelectDefaultRow(w)
        \/ InsertDefaultRow(w)

SpecConc == InitConc /\ [][NextConc]_vars

(***************************************************************************)
(* SpecSetConc: two requests set a permission at the same time. Each        *)
(* statement of SetMessagePermission is one step.                           *)
(***************************************************************************)
\* the fees the concurrent setters write
SetFees == {-1, 0, 5}

\* a handler calls SetMessagePermission(recipient, sender, box, fee);
\* sender = Null is the nil sender
CallSetMessagePermission(w) ==
    /\ workers[w].pc = "idle"
    /\ \E recipient \in Keys, sender \in {Null, "B"}, fee \in SetFees :
        workers' = [workers EXCEPT ![w] =
            [pc |-> IF sender = Null THEN "update" ELSE "upsert",
             recipient |-> recipient, sender |-> sender, box |-> "inbox", fee |-> fee]]
    /\ UNCHANGED <<Tables, message_permissions>>

\* "Try update first": done when a row was affected, else go on to insert
UpdateDefaultRow(w) ==
    LET c == workers[w]
    IN /\ c.pc = "update"
       /\ message_permissions' =
            UpdateFee(DB, c.recipient, Null, c.box, c.fee).message_permissions
       /\ workers' = [workers EXCEPT ![w].pc =
            IF PermRows(DB, c.recipient, Null, c.box) # {} THEN "done" ELSE "insert"]
       /\ UNCHANGED Tables

\* "Insert": the plain INSERT of the box-wide row
InsertBoxWideRow(w) ==
    LET c == workers[w]
    IN /\ c.pc = "insert"
       /\ message_permissions' =
            InsertPerm(DB, c.recipient, Null, c.box, c.fee).message_permissions
       /\ workers' = [workers EXCEPT ![w].pc = "done"]
       /\ UNCHANGED Tables

\* "For non-null sender": INSERT ... ON CONFLICT DO UPDATE, one statement
UpsertSenderRow(w) ==
    LET c == workers[w]
    IN /\ c.pc = "upsert"
       /\ message_permissions' =
            UpsertSender(DB, c.recipient, c.sender, c.box, c.fee).message_permissions
       /\ workers' = [workers EXCEPT ![w].pc = "done"]
       /\ UNCHANGED Tables

NextSetConc ==
    \E w \in WorkerIds :
        \/ CallSetMessagePermission(w)
        \/ UpdateDefaultRow(w)
        \/ InsertBoxWideRow(w)
        \/ UpsertSenderRow(w)

SpecSetConc == InitConc /\ [][NextSetConc]_vars

(***************************************************************************)
(* SpecBlockConc: a recipient blocks its inbox box-wide while a request     *)
(* resolves a fee. The block is the only value a recipient sets; each       *)
(* statement of either call is one step.                                    *)
(***************************************************************************)
\* a handler calls SetMessagePermission(recipient, nil, "inbox", -1)
CallBlock(w) ==
    /\ workers[w].pc = "idle"
    /\ \E recipient \in Keys :
        workers' = [workers EXCEPT ![w] =
            [pc |-> "update", recipient |-> recipient, sender |-> Null,
             box |-> "inbox", fee |-> -1]]
    /\ UNCHANGED <<Tables, message_permissions>>

\* the insert statement of the call a worker is in: the setter's plain
\* INSERT, the resolver's INSERT OR IGNORE
BlockInsert(w) == workers[w].sender = Null /\ InsertBoxWideRow(w)
ResolveInsert(w) == workers[w].sender # Null /\ InsertDefaultRow(w)

NextBlockConc ==
    \E w \in WorkerIds :
        \/ CallBlock(w)
        \/ UpdateDefaultRow(w)
        \/ BlockInsert(w)
        \/ CallGetRecipientFee(w)
        \/ SelectSenderRow(w)
        \/ SelectDefaultRow(w)
        \/ ResolveInsert(w)

SpecBlockConc == InitConc /\ [][NextBlockConc]_vars

(***************************************************************************)
(* SpecEnsureConc: requests provision boxes at the same time. Each          *)
(* statement of EnsureMessageBox is one step; a worker that has returned    *)
(* serves the next call.                                                    *)
(***************************************************************************)
\* a handler calls EnsureMessageBox(identityKey, boxType)
CallEnsureMessageBox(w) ==
    /\ workers[w].pc = "idle"
    /\ \E identityKey \in Keys, boxType \in BoxTypes :
        workers' = [workers EXCEPT ![w] =
            [pc |-> "insertBox", identityKey |-> identityKey, boxType |-> boxType,
             id |-> 0]]
    /\ UNCHANGED <<messageBox, messages, message_permissions, server_fees,
                   device_registrations>>

\* INSERT OR IGNORE INTO messageBox
InsertBoxRow(w) ==
    LET c == workers[w]
    IN /\ c.pc = "insertBox"
       /\ messageBox' = InsertOrIgnoreBox(DB, c.identityKey, c.boxType).messageBox
       /\ workers' = [workers EXCEPT ![w].pc = "selectBox"]
       /\ UNCHANGED <<messages, message_permissions, server_fees, device_registrations>>

\* SELECT messageBoxId ... Scan(&id): the id of a matching row
SelectBoxId(w) ==
    LET c == workers[w]
        rows == BoxRows(DB, c.identityKey, c.boxType)
    IN /\ c.pc = "selectBox"
       /\ IF rows = {}
          THEN workers' = [workers EXCEPT ![w].pc = "done", ![w].id = 0]
          ELSE \E b \in rows :
                  workers' = [workers EXCEPT ![w].pc = "done", ![w].id = b.id]
       /\ UNCHANGED <<messageBox, messages, message_permissions, server_fees,
                   device_registrations>>

\* the call has returned its id; the worker takes the next request
ReturnEnsureMessageBox(w) ==
    /\ workers[w].pc = "done"
    /\ workers' = [workers EXCEPT ![w] = Idle]
    /\ UNCHANGED <<messageBox, messages, message_permissions, server_fees,
                   device_registrations>>

NextEnsureConc ==
    \E w \in WorkerIds :
        \/ CallEnsureMessageBox(w)
        \/ InsertBoxRow(w)
        \/ SelectBoxId(w)
        \/ ReturnEnsureMessageBox(w)

SpecEnsureConc == InitConc /\ [][NextEnsureConc]_vars

(***************************************************************************)
(* SpecDevices: the device registrations. Both identities register the two  *)
(* push tokens, with or without a device id and a platform, and the server  *)
(* may be started again.                                                    *)
(***************************************************************************)
DeviceRegister ==
    \E k \in Keys, req \in RegisterReqs : Commit(RegisterDeviceHandler(DB, k, req))

NextDevices == DeviceRegister \/ StoreMigrate

SpecDevices == Init /\ [][NextDevices]_vars

(***************************************************************************)
(* Properties. A property of a handler is stated for every request of a     *)
(* probe set, served from the state at hand.                                *)
(***************************************************************************)
\* the recipients and the message ids a well-formed send names, in order
RecipientsOf(req) ==
    IF req.recipients.kind = "array" THEN req.recipients.val ELSE req.recipient.val
MessageIdsOf(req) == req.messageId.val

\* the fee the resolver yields now for (recipient, sender, box)
ResolvedFee(recipient, sender, box) == GetRecipientFee(DB, recipient, sender, box).fee

\* number of stored messages carrying a message id
StoredWithId(bag, id) == BagCount(bag, {m \in DOMAIN bag : m.messageId = id})

\* sends of one body to A, to B and to <<A, B>>, any ids, any payment field
FeeProbes == Sends(BoxTypes, {"b1"}, MsgIds, Payments)

\* box types a fee may be resolved for: seeded ones and an unseeded one
ProbeBoxTypes == BoxTypes \cup {"payment_inbox", "misc"}

\* sends of any body, with a payment attached, to A, to B and to <<A, B>>
StoreProbes == Sends(BoxTypes, Bodies, MsgIds, {"p1"})

\* the (recipient, messageId) pairs of a request, in request order
PairsOf(req) ==
    [i \in 1..Len(RecipientsOf(req)) |->
        [recipient |-> RecipientsOf(req)[i], messageId |-> MessageIdsOf(req)[i]]]

\* a message with this id is stored for this recipient
StoredFor(bag, recipient, id) ==
    \E m \in DOMAIN bag : m.recipient = recipient /\ m.messageId = id

\* C1: a validated send with at least one recipient whose resolved fee is -1
\* is refused (403, delivery blocked), stores no message for any recipient,
\* and names exactly the recipients with fee -1, in request order.
C1_BlockedSendRefused ==
    \A k \in Keys, req \in FeeProbes :
        LET rc == RecipientsOf(req)
            o == SendMessage(DB, k, req)
            IsBlocked(r) == ResolvedFee(r, k, req.messageBox) = -1
        IN (\E i \in 1..Len(rc) : IsBlocked(rc[i])) =>
              /\ o.status = 403
              /\ o.code = "ERR_DELIVERY_BLOCKED"
              /\ o.db.messages = messages
              /\ o.blocked = SelectSeq(rc, IsBlocked)

\* A blocks sender-specifically or box-wide, B is free: a send to <<A, B>>
\* has provisioned both boxes and B's default row, and nothing is stored
C1_Witness ==
    /\ messages = EmptyBag
    /\ GetMessageBoxID(DB, "A", "inbox") # 0
    /\ GetMessageBoxID(DB, "B", "inbox") # 0
    /\ PermRows(DB, "B", Null, "inbox") = {PermRow("B", Null, "inbox", 0)}
    /\ ResolvedFee("A", "B", "inbox") = -1
    /\ LET o == SendMessage(DB, "B",
                  SendReq("inbox", "b1", JAbsent, JArr(<<"A", "B">>),
                          JArr(<<"m1", "m2">>), NoPayment))
       IN o.code = "ERR_DELIVERY_BLOCKED" /\ o.blocked = <<"A">>

\* C2: a validated send with no blocked recipient requires payment iff the
\* server fee or some recipient's fee is nonzero; required and not attached:
\* missing-payment refusal, nothing stored; otherwise a message is stored for
\* every recipient.
C2_PaymentGate ==
    \A k \in Keys, req \in FeeProbes :
        LET rc == RecipientsOf(req)
            ids == MessageIdsOf(req)
            o == SendMessage(DB, k, req)
            Fee(i) == ResolvedFee(rc[i], k, req.messageBox)
            required == \/ GetServerDeliveryFee(DB, req.messageBox) # 0
                        \/ \E i \in 1..Len(rc) : Fee(i) # 0
        IN (\A i \in 1..Len(rc) : Fee(i) # -1) =>
              IF required /\ req.payment \in {NoPayment, JsonNull}
              THEN /\ o.code = "ERR_MISSING_PAYMENT_TX"
                   /\ o.db.messages = messages
              ELSE /\ o.code = "success"
                   /\ \A i \in 1..Len(rc) :
                        \E m \in DOMAIN o.db.messages :
                            m.recipient = rc[i] /\ m.messageId = ids[i]

\* A has set its box-wide inbox fee to -2: the fee is nonzero and not -1, and
\* B's send to A without a payment is stored
C2_Witness ==
    /\ PermRows(DB, "A", Null, "inbox") = {PermRow("A", Null, "inbox", -2)}
    /\ PermRows(DB, "A", "B", "inbox") = {}
    /\ GetMessageBoxID(DB, "A", "inbox") # 0
    /\ LET o == SendMessage(DB, "B",
                  SendReq("inbox", "b1", JStr("A"), JAbsent, JStr("m1"), NoPayment))
       IN o.code = "success" /\ StoredFor(o.db.messages, "A", "m1")

\* C3: the resolver returns the fee of the sender-specific row when there is
\* one, whatever the box-wide row holds, and the box-wide row's fee for a
\* sender without a row of its own; neither case writes.
C3_SenderRowFirst ==
    \A r \in Keys, s \in Keys, box \in BoxTypes :
        LET o == GetRecipientFee(DB, r, s, box)
            own == PermRows(DB, r, s, box)
            wide == PermRows(DB, r, Null, box)
        IN /\ own # {} => /\ \A p \in own : o.fee = p.recipient_fee
                          /\ o.db = DB
           /\ (own = {} /\ wide # {}) => /\ \A p \in wide : o.fee = p.recipient_fee
                                         /\ o.db = DB

\* A charges B 5 and blocks everybody else: B resolves to 5, A itself to -1
C3_Witness ==
    /\ PermRows(DB, "A", "B", "inbox") = {PermRow("A", "B", "inbox", 5)}
    /\ PermRows(DB, "A", Null, "inbox") = {PermRow("A", Null, "inbox", -1)}
    /\ PermRows(DB, "A", "A", "inbox") = {}
    /\ ResolvedFee("A", "B", "inbox") = 5
    /\ ResolvedFee("A", "A", "inbox") = -1

\* C4: with no permission row for (recipient, box) the resolver returns 10
\* for "notifications" and 0 for any other box type and adds exactly that
\* box-wide row; the next resolution, by any sender, returns the same value
\* and writes nothing.
C4_SmartDefault ==
    \A r \in Keys, s \in Keys, box \in ProbeBoxTypes :
        LET o == GetRecipientFee(DB, r, s, box)
            expected == IF box = "notifications" THEN 10 ELSE 0
        IN (\A p \in DOMAIN message_permissions :
                ~(p.recipient = r /\ p.message_box = box)) =>
              /\ o.fee = expected
              /\ o.db.message_permissions =
                    message_permissions (+) SetToBag({PermRow(r, Null, box, expected)})
              /\ \A s2 \in Keys :
                    LET o2 == GetRecipientFee(o.db, r, s2, box)
                    IN o2.fee = expected /\ o2.db = o.db

\* the first resolution for (A, notifications) has run: its row is the ledger
C4_Witness ==
    /\ message_permissions = SetToBag({PermRow("A", Null, "notifications", 10)})
    /\ ResolvedFee("A", "B", "notifications") = 10
    /\ GetRecipientFee(DB, "A", "B", "notifications").db = DB

\* C5: no state reached by sends and acknowledgments in any order holds two
\* stored messages with one id, and a send whose (recipient, messageId) pairs
\* are all stored already (sent before, not acknowledged since) and whose
\* recipients do not block reports success, lists the same pairs and stores
\* nothing more.
C5_ResendIsIdempotent ==
    /\ \A id \in MsgIds : StoredWithId(messages, id) <= 1
    /\ \A k \in Keys, req \in StoreProbes :
        LET rc == RecipientsOf(req)
            ids == MessageIdsOf(req)
            o == SendMessage(DB, k, req)
        IN (/\ \A i \in 1..Len(rc) : StoredFor(messages, rc[i], ids[i])
            /\ \A i \in 1..Len(rc) : ResolvedFee(rc[i], k, req.messageBox) # -1) =>
              /\ o.status = 200
              /\ o.code = "success"
              /\ o.results = PairsOf(req)
              /\ o.db.messages = messages
              /\ \A i \in 1..Len(rc) : StoredWithId(o.db.messages, ids[i]) = 1

\* B has sent m1 to A, the message is stored once, and B sending it again
\* is a success that changes no table
C5_Witness ==
    /\ StoredWithId(messages, "m1") = 1
    /\ \E m \in DOMAIN messages :
          m.messageId = "m1" /\ m.recipient = "A" /\ m.sender = "B"
    /\ LET o == SendMessage(DB, "B",
                  SendReq("inbox", "b1", JStr("A"), JAbsent, JStr("m1"), "p1"))
       IN /\ o.code = "success"
          /\ o.results = <<[recipient |-> "A", messageId |-> "m1"]>>
          /\ o.db = DB

\* C6: after a successful send every (recipient, messageId) pair of the
\* results has a stored message with that id, for that recipient, in that
\* recipient's box of the requested type.
C6_ListedPairsAreStored ==
    \A k \in Keys, req \in StoreProbes :
        LET o == SendMessage(DB, k, req)
        IN o.code = "success" =>
              \A i \in 1..Len(o.results) :
                 \E m \in DOMAIN o.db.messages :
                    /\ m.messageId = o.results[i].messageId
                    /\ m.recipient = o.results[i].recipient
                    /\ m.messageBoxId =
                          GetMessageBoxID(o.db, o.results[i].recipient, req.messageBox)

\* m1 is stored for A, B's inbox exists and is empty: a send of m1 to B is
\* answered with success and the pair (B, m1), and stores nothing
C6_Witness ==
    /\ StoredFor(messages, "A", "m1")
    /\ GetMessageBoxID(DB, "B", "inbox") # 0
    /\ \A m \in DOMAIN messages : m.recipient # "B"
    /\ LET o == SendMessage(DB, "A",
                  SendReq("inbox", "b2", JStr("B"), JAbsent, JStr("m1"), "p1"))
       IN /\ o.code = "success"
          /\ o.results = <<[recipient |-> "B", messageId |-> "m1"]>>
          /\ o.db.messages = messages

\* the stored messages acknowledge(caller, ids) is about
AckHit(caller, ids) ==
    {m \in DOMAIN messages : m.recipient = caller /\ m.messageId \in Range(ids)}

\* C7: an acknowledge request none of whose ids is the id of a stored
\* message of the caller (unknown, acknowledged before, or another
\* recipient's) is answered 400, never success, with ERR_INVALID_ACKNOWLEDGMENT
\* when it carries ids, and leaves every table as it was.
C7_EmptyAckIsRefused ==
    \A k \in Keys, ids \in AckRequests :
        LET o == AcknowledgeMessage(DB, k, ids)
        IN AckHit(k, ids) = {} =>
              /\ o.status = 400
              /\ o.code # "success"
              /\ ids # <<>> => o.code = "ERR_INVALID_ACKNOWLEDGMENT"
              /\ o.db = DB

\* m1 is stored for B only: A acknowledging m1 (not its own) and m2 (unknown)
\* is refused and B's message stays
C7_Witness ==
    /\ \E m \in DOMAIN messages : m.messageId = "m1" /\ m.recipient = "B"
    /\ StoredWithId(messages, "m2") = 0
    /\ AcknowledgeMessage(DB, "A", <<"m1", "m2">>).code = "ERR_INVALID_ACKNOWLEDGMENT"
    /\ AcknowledgeMessage(DB, "A", <<"m1", "m2">>).db = DB

\* C8: acknowledge(caller, ids) removes exactly the stored messages of the
\* caller whose id is in ids, returns their number, and leaves every other
\* message and every other table unchanged; with at least one such message
\* the request succeeds, whatever other ids it carries.
C8_AckDeletesExactly ==
    \A k \in Keys, ids \in AckRequests :
        LET a == AcknowledgeMessages(DB, k, ids)
            o == AcknowledgeMessage(DB, k, ids)
        IN /\ a.db.messages = BagWithout(messages, AckHit(k, ids))
           /\ a.deleted = BagCount(messages, AckHit(k, ids))
           /\ a.db = [DB EXCEPT !.messages = a.db.messages]
           /\ AckHit(k, ids) # {} => /\ o.code = "success"
                                     /\ o.status = 200
                                     /\ o.db = a.db

\* A holds m1, B holds m2: A acknowledging <<m1, m2>> removes m1 alone
C8_Witness ==
    /\ \E m \in DOMAIN messages : m.messageId = "m1" /\ m.recipient = "A"
    /\ \E m \in DOMAIN messages : m.messageId = "m2" /\ m.recipient = "B"
    /\ LET a == AcknowledgeMessages(DB, "A", <<"m1", "m2">>)
       IN /\ a.deleted = 1
          /\ StoredWithId(a.db.messages, "m1") = 0
          /\ StoredWithId(a.db.messages, "m2") = 1

\* the entry of the list response that shows a stored message
Entry(m) == [messageId |-> m.messageId, body |-> m.body, sender |-> m.sender]

\* a stored message is listed for its recipient in the box it lies in
Listed(db, m) ==
    \E b \in db.messageBox :
        /\ b.id = m.messageBoxId
        /\ Entry(m) \in ListMessagesHandler(db, m.recipient, b.type).listed

\* the step from db to after is an acknowledgment of m's id by m's recipient
AckedBetween(db, after, m) ==
    \E ids \in AckRequests :
        /\ m.messageId \in Range(ids)
        /\ after = AcknowledgeMessage(db, m.recipient, ids).db

\* C9: every message stored after a step is listed for its recipient in its
\* box with its sender and body; a message stored before a step is still
\* stored and listed after it, unless the step is an acknowledgment of its
\* id by its recipient, and then it is neither stored nor listed.
C9_ListedUntilAcknowledged ==
    [][/\ \A m \in DOMAIN messages' : Listed(DB', m)
       /\ \A m \in DOMAIN messages :
            IF AckedBetween(DB, DB', m)
            THEN /\ m \notin DOMAIN messages'
                 /\ \A b \in messageBox' :
                      Entry(m) \notin ListMessagesHandler(DB', m.recipient, b.type).listed
            ELSE /\ m \in DOMAIN messages'
                 /\ messages'[m] = messages[m]
                 /\ Listed(DB', m)]_vars

\* B's m1 for A (body b1) has outlived A blocking its inbox and a send of m2
\* to B; it is listed for A, and A's acknowledgment of m1 unlists it
C9_Witness ==
    /\ PermRows(DB, "A", Null, "inbox") = {PermRow("A", Null, "inbox", -1)}
    /\ StoredFor(messages, "B", "m2")
    /\ \E m \in DOMAIN messages :
          /\ m.messageId = "m1" /\ m.recipient = "A" /\ m.sender = "B"
          /\ m.body.message = "b1"
          /\ Listed(DB, m)
          /\ LET o == AcknowledgeMessage(DB, "A", <<"m1">>)
             IN /\ o.code = "success"
                /\ Entry(m) \notin ListMessagesHandler(o.db, "A", "inbox").listed

\* C10: two resolutions for one (recipient, sender, box) that started on a
\* ledger without rows for it and have both returned, however their
\* statements interleaved, returned the same fee and left exactly one
\* box-wide default row for (recipient, box).
C10_OneDefaultRow ==
    \A v, w \in WorkerIds :
        (/\ v # w
         /\ workers[v].pc = "done" /\ workers[w].pc = "done"
         /\ workers[v].recipient = workers[w].recipient
         /\ workers[v].sender = workers[w].sender
         /\ workers[v].box = workers[w].box) =>
            /\ workers[v].fee = workers[w].fee
            /\ BagCount(message_permissions,
                        PermRows(DB, workers[w].recipient, Null, workers[w].box)) = 1

\* both resolutions of (A, B, inbox) have returned 0 and the ledger holds
\* the box-wide default row of (A, inbox) twice
C10_Witness ==
    /\ \A w \in WorkerIds :
          /\ workers[w].pc = "done" /\ workers[w].fee = 0
          /\ workers[w].recipient = "A" /\ workers[w].sender = "B"
          /\ workers[w].box = "inbox"
    /\ message_permissions = [p \in {PermRow("A", Null, "inbox", 0)} |-> 2]

\* the (recipient, sender-or-Null, box) keys of the ledger
PermKeys == {[recipient |-> p.recipient, sender |-> p.sender, box |-> p.message_box] :
                p \in DOMAIN message_permissions}

\* C11: under any interleaving of the statements of two set-permission calls
\* the ledger holds at most one row per (recipient, sender, box), the nil
\* sender being one key, and once both calls for one key have returned the
\* row of the key carries the fee of one of them.
C11_OneRowPerKey ==
    /\ \A k \in PermKeys :
          BagCount(message_permissions, PermRows(DB, k.recipient, k.sender, k.box)) <= 1
    /\ \A v, w \in WorkerIds :
          (/\ v # w
           /\ workers[v].pc = "done" /\ workers[w].pc = "done"
           /\ workers[v].recipient = workers[w].recipient
           /\ workers[v].sender = workers[w].sender
           /\ workers[v].box = workers[w].box) =>
              ScanFees(PermRows(DB, workers[w].recipient, workers[w].sender,
                                workers[w].box))
                 \in {{workers[v].fee}, {workers[w].fee}}

\* both box-wide sets of A's inbox have returned, one with fee 5 and one
\* with fee -1, and both rows are in the ledger
C11_Witness ==
    /\ \A w \in WorkerIds : workers[w].pc = "done"
    /\ message_permissions =
          SetToBag({PermRow("A", Null, "inbox", 5), PermRow("A", Null, "inbox", -1)})

\* the permission requests of one caller: any sender or none, any box, any fee
SetProbes == Sets(Keys \cup {Null}, BoxTypes, Fees)

\* C12: a set-permission served on its own leaves exactly one row for its
\* (recipient, sender-or-none, box), whose fee the exact-match read returns,
\* and every row of another key as it was, whether the key had no row, a row
\* set before or an auto-provisioned box-wide default.
C12_SetIsUpsert ==
    \A r \in Keys, req \in SetProbes :
        LET o == SetPermission(DB, r, req)
            g == GetPermission(o.db, r, req.sender, req.messageBox)
            key == PermRows(DB, r, req.sender, req.messageBox)
            after == PermRows(o.db, r, req.sender, req.messageBox)
        IN /\ o.code = "success"
           /\ g.found /\ g.fee = req.recipientFee
           /\ BagCount(o.db.message_permissions, after) = 1
           /\ BagWithout(o.db.message_permissions, after) =
                 BagWithout(message_permissions, key)

\* A's notifications default (10) was auto-provisioned by a resolution and
\* A's inbox carries an explicit box-wide block: setting either to 5 keeps
\* one row, with fee 5
C12_Witness ==
    /\ PermRows(DB, "A", Null, "notifications") = {PermRow("A", Null, "notifications", 10)}
    /\ PermRows(DB, "A", Null, "inbox") = {PermRow("A", Null, "inbox", -1)}
    /\ PermRows(DB, "A", "B", "inbox") = {}
    /\ \A box \in BoxTypes :
          LET db2 == SetMessagePermission(DB, "A", Null, box, 5)
          IN /\ GetPermission(db2, "A", Null, box).fee = 5
             /\ BagCount(db2.message_permissions, PermRows(db2, "A", Null, box)) = 1

\* C13: under any interleaving of the statements of any number of ensure
\* calls there is at most one box per (identity, box type), exactly one once
\* a call has run its insert, and every call returns the id of that box,
\* which is not zero.
C13_EnsureIdempotent ==
    /\ \A k \in Keys, t \in BoxTypes : Cardinality(BoxRows(DB, k, t)) <= 1
    /\ \A w \in WorkerIds :
          workers[w].pc \in {"selectBox", "done"} =>
              Cardinality(BoxRows(DB, workers[w].identityKey, workers[w].boxType)) = 1
    /\ \A w \in WorkerIds :
          workers[w].pc = "done" =>
              /\ workers[w].id # 0
              /\ BoxRows(DB, workers[w].identityKey, workers[w].boxType) =
                    {[id |-> workers[w].id, identityKey |-> workers[w].identityKey,
                      type |-> workers[w].boxType]}

\* after earlier calls provisioned B's notifications box (id 1) and A's inbox
\* (id 2), two overlapping calls for (A, inbox) both return 2
C13_Witness ==
    /\ messageBox = {[id |-> 1, identityKey |-> "B", type |-> "notifications"],
                     [id |-> 2, identityKey |-> "A", type |-> "inbox"]}
    /\ \A w \in WorkerIds :
          /\ workers[w].pc = "done"
          /\ workers[w].identityKey = "A" /\ workers[w].boxType = "inbox"
          /\ workers[w].id = 2

\* number of stored messages with this id for this recipient
StoredForCount(bag, recipient, id) ==
    BagCount(bag, {m \in DOMAIN bag : m.recipient = recipient /\ m.messageId = id})

\* C14: a send to several recipients that is interrupted after the inserts of
\* a proper prefix of them and then retried unchanged is answered with
\* success and leaves exactly one stored message for each of its
\* (recipient, messageId) pairs.
C14_RetryCompletes ==
    \A k \in Keys, req \in StoreProbes, n \in {0, 1} :
        LET rc == RecipientsOf(req)
            ids == MessageIdsOf(req)
            cut == SendMessageInterrupted(DB, k, req, n)
            o == SendMessage(cut.db, k, req)
        IN (Len(rc) > 1 /\ cut.code = "interrupted") =>
              /\ o.code = "success"
              /\ \A i \in 1..Len(rc) : StoredForCount(o.db.messages, rc[i], ids[i]) = 1

\* A's send of m1 to <<A, B>> was cut after A's insert (both inboxes and
\* default rows exist, only A holds a message); the retry with ids <<m1, m1>>
\* is answered with success and B still has no message
C14_Witness ==
    /\ GetMessageBoxID(DB, "A", "inbox") # 0 /\ GetMessageBoxID(DB, "B", "inbox") # 0
    /\ PermRows(DB, "B", Null, "inbox") # {}
    /\ \E m \in DOMAIN messages :
          m.messageId = "m1" /\ m.recipient = "A" /\ m.sender = "A"
    /\ BagCardinality(messages) = 1
    /\ LET o == SendMessage(DB, "A",
                  SendReq("inbox", "b1", JAbsent, JArr(<<"A", "B">>),
                          JArr(<<"m1", "m1">>), "p1"))
       IN /\ o.code = "success"
          /\ StoredForCount(o.db.messages, "B", "m1") = 0

\* the responses (status, code, tables left behind) of the nine endpoints to
\* requests that carry no authenticated identity
Unauthenticated ==
    {[endpoint |-> "sendMessage", status |-> o.status, code |-> o.code, db |-> o.db] :
        o \in {SendMessage(DB, NoIdentity, req) : req \in StoreProbes}}
    \cup
    {[endpoint |-> "listMessages", status |-> o.status, code |-> o.code, db |-> o.db] :
        o \in {ListMessagesHandler(DB, NoIdentity, box) : box \in BoxTypes}}
    \cup
    {[endpoint |-> "acknowledgeMessage", status |-> o.status, code |-> o.code,
      db |-> o.db] :
        o \in {AcknowledgeMessage(DB, NoIdentity, ids) : ids \in AckRequests}}
    \cup
    {[endpoint |-> "registerDevice", status |-> o.status, code |-> o.code, db |-> o.db] :
        o \in {RegisterDeviceHandler(DB, NoIdentity, req) : req \in RegisterReqs}}
    \cup
    {[endpoint |-> "devices", status |-> o.status, code |-> o.code, db |-> o.db] :
        o \in {ListDevicesHandler(DB, NoIdentity)}}
    \cup
    {[endpoint |-> "permissions/set", status |-> o.status, code |-> o.code, db |-> o.db] :
        o \in {SetPermission(DB, NoIdentity, req) : req \in SetProbes}}
    \cup
    {[endpoint |-> "permissions/get", status |-> o.status, code |-> o.code, db |-> o.db] :
        o \in {GetPermissionHandler(DB, NoIdentity, box, sp) :
                  box \in BoxTypes, sp \in Keys \cup {NoParam}}}
    \cup
    {[endpoint |-> "permissions/list", status |-> o.status, code |-> o.code,
      db |-> o.db] :
        o \in {ListPermissionsHandler(DB, NoIdentity, box, NotGiven, NotGiven) :
                  box \in BoxTypes \cup {NoParam}}}
    \cup
    {[endpoint |-> "permissions/quote", status |-> o.status, code |-> o.code,
      db |-> o.db] :
        o \in {GetQuote(DB, NoIdentity, box, rc) :
                  box \in BoxTypes, rc \in QuoteRecipients}}

\* the error codes of the handlers that read ERR_*AUTH*REQUIRED
AuthRequiredCodes == {"ERR_AUTH_REQUIRED", "ERR_AUTHENTICATION_REQUIRED"}

\* C15 (as claimed): every endpoint answers a request without an identity
\* with 401 and a code of the form ERR_*AUTH*REQUIRED and changes no table.
C15_UniformAuthCode ==
    \A r \in Unauthenticated :
        r.status = 401 /\ r.code \in AuthRequiredCodes /\ r.db = DB

\* C15 (amended): every endpoint answers a request without an identity with
\* 401 and changes no table; the code is ERR_UNAUTHORIZED for permission
\* list and of the form ERR_*AUTH*REQUIRED for the eight others.
C15_UnauthenticatedRefused ==
    \A r \in Unauthenticated :
        /\ r.status = 401
        /\ r.db = DB
        /\ IF r.endpoint = "permissions/list" THEN r.code = "ERR_UNAUTHORIZED"
           ELSE r.code \in AuthRequiredCodes

\* A holds m1 and blocks its inbox: without an identity m1 cannot be
\* acknowledged, A's ledger cannot be listed, and no device is registered
C15_Witness ==
    /\ StoredFor(messages, "A", "m1")
    /\ PermRows(DB, "A", Null, "inbox") = {PermRow("A", Null, "inbox", -1)}
    /\ AcknowledgeMessage(DB, NoIdentity, <<"m1">>).status = 401
    /\ AcknowledgeMessage(DB, NoIdentity, <<"m1">>).db = DB
    /\ ListPermissionsHandler(DB, NoIdentity, NoParam, NotGiven, NotGiven).code
          = "ERR_UNAUTHORIZED"
    /\ \A req \in RegisterReqs : RegisterDeviceHandler(DB, NoIdentity, req).db = DB

\* sends with every field right or wrong: box blank, body empty, the
\* recipient fields absent, null, empty, padded or not a key, the message
\* ids absent, a string, null or a list of any length, blank or not
ValidationProbes ==
    {SendReq(box, body, recipient, recipients, messageId, "p1") :
        box \in {"inbox", " "},
        body \in {"b1", ""},
        recipient \in {JAbsent, JStr("A"), JStr(BadKey)},
        recipients \in {JAbsent, JNull, JArr(<<>>), JArr(<<"A", "B">>),
                        JArr(<<PaddedA, BadKey>>)},
        messageId \in {JAbsent, JStr("m1"), JStr(" "), JNull, JArr(<<>>), JArr(<<"m1">>),
                       JArr(<<"m1", "m2">>), JArr(<<"m1", " ">>)}}

\* the recipient field a request is read from: recipients, else recipient
RecipientField(req) ==
    IF req.recipients.kind \in {"absent", "null"} THEN req.recipient ELSE req.recipients

\* the recipients and the message ids a request names
NamedRecipients(req) == RecipientField(req).val
NamedIds(req) == req.messageId.val

\* the request names no recipient: fields absent or null, or an empty list
NoRecipients(req) ==
    RecipientField(req).kind \in {"absent", "null"} \/ NamedRecipients(req) = <<>>

\* the error of the first rule a request violates, in the order (a) body,
\* (b) box type, (c) recipients, (d) (e) counts, (f) blank id, (g) key;
\* "none" when it violates no rule
FirstViolated(req) ==
    LET rc == NamedRecipients(req)
        ids == NamedIds(req)
    IN IF req.body = "" THEN "ERR_INVALID_MESSAGE_BODY"
       ELSE IF TrimSpace(req.messageBox) = "" THEN "ERR_INVALID_MESSAGEBOX"
       ELSE IF NoRecipients(req) THEN "ERR_RECIPIENT_REQUIRED"
       ELSE IF Len(rc) > 1 /\ Len(ids) = 1 THEN "ERR_MESSAGEID_COUNT_MISMATCH"
       ELSE IF Len(ids) # Len(rc) THEN "ERR_MESSAGEID_COUNT_MISMATCH"
       ELSE IF \E i \in 1..Len(ids) : TrimSpace(ids[i]) = "" THEN "ERR_INVALID_MESSAGEID"
       ELSE IF \E i \in 1..Len(rc) : ~isValidPubKey(TrimSpace(rc[i]))
       THEN "ERR_INVALID_RECIPIENT_KEY"
       ELSE "none"

\* the error of the first rule a request violates, in the order: box type,
\* body, recipient fields absent or null, message id absent, counts, blank
\* id, key; "none" when it violates no rule
FirstRefused(req) ==
    LET rc == NamedRecipients(req)
        ids == NamedIds(req)
    IN IF TrimSpace(req.messageBox) = "" THEN "ERR_INVALID_MESSAGEBOX"
       ELSE IF req.body = "" THEN "ERR_INVALID_MESSAGE_BODY"
       ELSE IF RecipientField(req).kind \in {"absent", "null"} THEN "ERR_RECIPIENT_REQUIRED"
       ELSE IF req.messageId.kind = "absent" THEN "ERR_MESSAGEID_REQUIRED"
       ELSE IF Len(rc) > 1 /\ Len(ids) = 1 THEN "ERR_MESSAGEID_COUNT_MISMATCH"
       ELSE IF Len(ids) # Len(rc) THEN "ERR_MESSAGEID_COUNT_MISMATCH"
       ELSE IF \E i \in 1..Len(ids) : TrimSpace(ids[i]) = "" THEN "ERR_INVALID_MESSAGEID"
       ELSE IF \E i \in 1..Len(rc) : ~isValidPubKey(TrimSpace(rc[i]))
       THEN "ERR_INVALID_RECIPIENT_KEY"
       ELSE "none"

\* C16: a send that violates a validation rule is refused with status 400
\* and the error of the first rule it violates in the order: blank box
\* type, empty body, recipient fields absent or null, message id absent,
\* one id for several recipients, unequal counts, a blank id, a recipient
\* that is no public key; an empty body with a blank box type is refused as
\* invalid box; a request that violates none is not refused by validation.
C16_FirstRefusedRule ==
    \A k \in Keys, req \in ValidationProbes :
        LET o == SendMessage(DB, k, req)
        IN /\ FirstRefused(req) # "none" =>
                o.status = 400 /\ o.code = FirstRefused(req) /\ o.db = DB
           /\ FirstRefused(req) = "none" =>
                o.code \in {"success", "ERR_DELIVERY_BLOCKED", "ERR_MISSING_PAYMENT_TX"}

\* the order as first stated, body before box type and an empty list of
\* recipients counted as no recipients: a send that violates a rule is
\* refused with the error of the first rule it violates in the order
\* (a) .. (g).
C16_FirstViolatedRule ==
    \A k \in Keys, req \in ValidationProbes :
        FirstViolated(req) # "none" =>
            SendMessage(DB, k, req).code = FirstViolated(req)

\* with messages stored, a send with an empty body and a blank box type is
\* refused as invalid box, and a send to an empty list with one id as a
\* count mismatch
C16_Witness ==
    /\ StoredFor(messages, "A", "m1") /\ StoredFor(messages, "B", "m2")
    /\ SendMessage(DB, "A", SendReq(" ", "", JStr("A"), JAbsent, JStr("m1"), "p1")).code
          = "ERR_INVALID_MESSAGEBOX"
    /\ SendMessage(DB, "A",
                   SendReq("inbox", "b1", JAbsent, JArr(<<>>), JArr(<<"m1">>), "p1")).code
          = "ERR_MESSAGEID_COUNT_MISMATCH"

\* C17: a send with a box type and a body that names no recipient, whatever
\* its message ids, is refused with 400 ERR_RECIPIENT_REQUIRED and never
\* answered with success.
C17_NoRecipientsRefused ==
    \A k \in Keys, req \in ValidationProbes :
        (req.body # "" /\ TrimSpace(req.messageBox) # "" /\ NoRecipients(req)) =>
            /\ SendMessage(DB, k, req).status = 400
            /\ SendMessage(DB, k, req).code = "ERR_RECIPIENT_REQUIRED"

\* with messages stored, a send to the empty list with the empty list of
\* ids is answered with success and no result, and stores nothing
C17_Witness ==
    /\ StoredFor(messages, "A", "m1")
    /\ LET o == SendMessage(DB, "B",
                  SendReq("inbox", "b1", JAbsent, JArr(<<>>), JArr(<<>>), "p1"))
       IN o.status = 200 /\ o.code = "success" /\ o.results = <<>> /\ o.db = DB

\* sends to zero to three recipients with zero to three message ids
PairingProbes ==
    {SendReq(box, "b1", JAbsent, recipients, messageId, "p1") :
        box \in {"inbox", "notifications"},
        recipients \in {JStr("A"), JArr(<<>>), JArr(<<"B">>), JArr(<<PaddedA, "B">>),
                        JArr(<<"B", "A">>), JArr(<<"A", "B", "A">>)},
        messageId \in {JStr("m1"), JNull, JArr(<<>>), JArr(<<"m2">>), JArr(<<"m1", "m2">>),
                       JArr(<<"m2", "m1">>), JArr(<<"m1", "m2", "m1">>)}}

\* the codes of a send that was admitted past validation
AdmittedCodes == {"success", "ERR_DELIVERY_BLOCKED", "ERR_MISSING_PAYMENT_TX"}

\* C18: a send is admitted past validation only when it has as many message
\* ids as recipients; with unequal counts it is refused with
\* 400 ERR_MESSAGEID_COUNT_MISMATCH and changes nothing; on success the
\* i-th result is the i-th recipient (trimmed) with the i-th message id.
C18_CountsAndPairing ==
    \A k \in Keys, req \in PairingProbes :
        LET o == SendMessage(DB, k, req)
            rc == NamedRecipients(req)
            ids == NamedIds(req)
        IN /\ o.code \in AdmittedCodes => Len(ids) = Len(rc)
           /\ Len(ids) # Len(rc) =>
                o.status = 400 /\ o.code = "ERR_MESSAGEID_COUNT_MISMATCH" /\ o.db = DB
           /\ o.code = "success" =>
                /\ Len(o.results) = Len(rc)
                /\ \A i \in 1..Len(rc) :
                      o.results[i] = [recipient |-> TrimSpace(rc[i]), messageId |-> ids[i]]

\* with messages stored, a send to <<" A ", B>> with ids <<m2, m1>> succeeds
\* and answers (A, m2), (B, m1), and a send to <<B, A>> with the one id m2
\* is refused as a count mismatch
C18_Witness ==
    /\ messages # EmptyBag
    /\ LET o == SendMessage(DB, "A",
                  SendReq("inbox", "b1", JAbsent, JArr(<<PaddedA, "B">>),
                          JArr(<<"m2", "m1">>), "p1"))
       IN o.code = "success"
          /\ o.results = <<[recipient |-> "A", messageId |-> "m2"],
                           [recipient |-> "B", messageId |-> "m1"]>>
    /\ SendMessage(DB, "A",
                   SendReq("inbox", "b1", JAbsent, JArr(<<"B", "A">>),
                           JArr(<<"m2">>), "p1")).code = "ERR_MESSAGEID_COUNT_MISMATCH"

\* the box types a caller may ask to list: the seeded ones and one no box has
ListedTypes == BoxTypes \cup {"misc"}

\* the stored messages whose recipient is x and whose box is x's box of type t
MessagesIn(x, t) ==
    {m \in DOMAIN messages :
        /\ m.recipient = x
        /\ \E b \in messageBox :
              b.id = m.messageBoxId /\ b.identityKey = x /\ b.type = t}

\* C19: list for caller X and box type T answers success with exactly the
\* stored messages whose recipient is X and whose box is X's box of type T,
\* each once with its id, body and sender; when X has no box of type T the
\* list is empty; no list changes a table, so no box is created.
C19_ListExactlyOwnBox ==
    \A x \in Keys, t \in ListedTypes :
        LET o == ListMessagesHandler(DB, x, t)
        IN /\ o.status = 200 /\ o.code = "success"
           /\ o.db = DB
           /\ o.listed = {Entry(m) : m \in MessagesIn(x, t)}
           /\ \A m \in DOMAIN messages :
                 Entry(m) \in o.listed => m \in MessagesIn(x, t)
           /\ BoxRows(DB, x, t) = {} => o.listed = {}

\* B holds one message in its inbox and another in its notifications box,
\* each listed in its own box only, and A, without a notifications box,
\* lists it empty
C19_Witness ==
    /\ \E m1 \in MessagesIn("B", "inbox"), m2 \in MessagesIn("B", "notifications") :
          /\ ListMessagesHandler(DB, "B", "inbox").listed = {Entry(m1)}
          /\ ListMessagesHandler(DB, "B", "notifications").listed = {Entry(m2)}
    /\ BoxRows(DB, "A", "notifications") = {}
    /\ ListMessagesHandler(DB, "A", "notifications").listed = {}

\* the recipient lists of a multi-recipient quote: two or three keys, a key
\* twice among them
MultiRecipients == {<<"A", "B">>, <<"B", "A">>, <<"A", "A">>, <<"A", "B", "A">>}

\* the sum of the positive entries of a sequence of fees
RECURSIVE PositiveSum(_)
PositiveSum(fees) ==
    IF fees = <<>> THEN 0
    ELSE (IF Head(fees) > 0 THEN Head(fees) ELSE 0) + PositiveSum(Tail(fees))

\* C20: a quote for n >= 2 recipients answers, per recipient in the order
\* given, the server delivery fee of the box, the fee resolved for the
\* recipient and the status blocked iff the fee is -1, payment_required iff
\* it is > 0, always_allow otherwise; deliveryFees = n * server fee,
\* recipientFees = the sum of the positive fees, the total their sum, and
\* blockedRecipients the recipients with fee -1, in order.
C20_MultiQuote ==
    \A s \in Keys, box \in BoxTypes, rcps \in MultiRecipients :
        LET o == GetQuote(DB, s, box, rcps)
            n == Len(rcps)
            fee == [i \in 1..n |-> ResolvedFee(rcps[i], s, box)]
            serverFee == GetServerDeliveryFee(DB, box)
        IN /\ o.status = 200 /\ o.code = "success"
           /\ Len(o.quotes) = n
           /\ \A i \in 1..n :
                 /\ o.quotes[i].recipient = rcps[i]
                 /\ o.quotes[i].deliveryFee = serverFee
                 /\ o.quotes[i].recipientFee = fee[i]
                 /\ (o.quotes[i].status = "blocked") <=> (fee[i] = -1)
                 /\ (o.quotes[i].status = "payment_required") <=> (fee[i] > 0)
                 /\ (o.quotes[i].status = "always_allow") <=> (fee[i] # -1 /\ fee[i] <= 0)
           /\ o.deliveryFees = n * serverFee
           /\ o.recipientFees = PositiveSum(fee)
           /\ o.total = o.deliveryFees + o.recipientFees
           /\ o.blocked = SelectSeq(rcps, LAMBDA r : ResolvedFee(r, s, box) = -1)

\* a ledger where B's quote for <<A, B, A>> in the inbox finds A blocked and
\* B at 5, A's quote for <<A, B>> finds a fee of -2, and a quote in
\* notifications carries the server fee of 10 twice
C20_Witness ==
    /\ LET o == GetQuote(DB, "B", "inbox", <<"A", "B", "A">>)
       IN /\ o.blocked = <<"A", "A">>
          /\ o.quotes[2].status = "payment_required"
          /\ o.recipientFees = 5 /\ o.deliveryFees = 0 /\ o.total = 5
    /\ \E i \in 1..2 :
          LET q == GetQuote(DB, "A", "inbox", <<"A", "B">>).quotes[i]
          IN q.recipientFee = -2 /\ q.status = "always_allow"
    /\ LET o == GetQuote(DB, "B", "notifications", <<"A", "B">>)
       IN o.deliveryFees = 20 /\ o.recipientFees = 20 /\ o.total = 40

\* C21: after any sequence of permission sets and fee resolutions, every fee
\* that fee resolution returns is -1, 0 or a positive integer.
C21_FeeContract ==
    \A r \in Keys, s \in Keys, box \in BoxTypes :
        ResolvedFee(r, s, box) = -1 \/ ResolvedFee(r, s, box) >= 0

\* A has set the fee -2 for its inbox, and the fee resolved for a send from B
\* to A is -2
C21_Witness ==
    /\ \E p \in DOMAIN message_permissions :
          p.recipient = "A" /\ p.message_box = "inbox" /\ p.recipient_fee = -2
    /\ ResolvedFee("A", "B", "inbox") = -2

\* the database each request of an authenticated caller leaves behind: every
\* endpoint with its probe requests
RequestEffects ==
    {SendMessage(DB, k, req).db : k \in Keys, req \in StoreProbes \cup BadSends}
    \cup {ListMessagesHandler(DB, k, box).db : k \in Keys, box \in ListedTypes}
    \cup {AcknowledgeMessage(DB, k, ids).db : k \in Keys, ids \in AckRequests}
    \cup {RegisterDeviceHandler(DB, k, req).db : k \in Keys, req \in RegisterReqs}
    \cup {ListDevicesHandler(DB, k).db : k \in Keys}
    \cup {SetPermission(DB, k, req).db : k \in Keys, req \in SetProbes}
    \cup {GetPermissionHandler(DB, k, box, sp).db :
             k \in Keys, box \in BoxTypes, sp \in Keys \cup {NoParam}}
    \cup {ListPermissionsHandler(DB, k, box, NotGiven, NotGiven).db :
             k \in Keys, box \in BoxTypes \cup {NoParam}}
    \cup {GetQuote(DB, k, box, rc).db :
             k \in Keys, box \in BoxTypes, rc \in QuoteRecipients \cup MultiRecipients}

\* C22: Migrate on a new database seeds the server fees notifications 10,
\* inbox 0, payment_inbox 0; at every time the delivery fee is 10 for
\* notifications, 0 for inbox and payment_inbox and 0 for a box type
\* without a row; no request changes server_fees, and Migrate run again
\* changes nothing.
C22_ServerFees ==
    /\ Migrate(EmptyTables) = MigratedDB
    /\ GetServerDeliveryFee(DB, "notifications") = 10
    /\ GetServerDeliveryFee(DB, "inbox") = 0
    /\ GetServerDeliveryFee(DB, "payment_inbox") = 0
    /\ GetServerDeliveryFee(DB, "misc") = 0
    /\ \A db \in RequestEffects : db.server_fees = server_fees
    /\ Migrate(DB) = DB

\* with messages stored and the inbox of A blocked, a box type without a row
\* has the fee 0 and Migrate leaves the database as it is
C22_Witness ==
    /\ messages # EmptyBag
    /\ message_permissions # EmptyBag
    /\ GetServerDeliveryFee(DB, "misc") = 0
    /\ "misc" \notin {f.message_box : f \in server_fees}
    /\ Migrate(DB) = DB

\* the limit and offset parameters of /permissions/list: absent, or a number
\* in range
PageLimits == {NotGiven, Given(1), Given(2)}
PageOffsets == {NotGiven, Given(1), Given(3)}

\* the number of stored permission rows of a recipient, of one box type when
\* the filter is given
MatchingRows(recipient, boxParam) ==
    BagCardinality(
        [p \in {q \in DOMAIN message_permissions :
                   /\ q.recipient = recipient
                   /\ boxParam = NoParam \/ q.message_box = boxParam}
            |-> message_permissions[p]])

Min(a, b) == IF a < b THEN a ELSE b
Max(a, b) == IF a > b THEN a ELSE b

\* C23: a permission list for a recipient, with or without a box type, with
\* limit L and offset O answers totalCount = the number N of the recipient's
\* matching rows, whatever L and O, and a page of min(L, max(0, N - O))
\* rows, each a stored row of that recipient and box type.
C23_ListPagination ==
    \A x \in Keys, box \in BoxTypes \cup {NoParam}, l \in PageLimits, f \in PageOffsets :
        LET o == ListPermissionsHandler(DB, x, box, l, f)
            n == MatchingRows(x, box)
            lim == IF l.given THEN l.v ELSE 100
            off == IF f.given THEN f.v ELSE 0
        IN /\ o.status = 200 /\ o.code = "success"
           /\ o.totalCount = n
           /\ Len(o.permissions) = Min(lim, Max(0, n - off))
           /\ \A i \in 1..Len(o.permissions) :
                 /\ \E p \in DOMAIN message_permissions :
                       /\ p.recipient = x
                       /\ o.permissions[i] = [sender |-> p.sender,
                                              messageBox |-> p.message_box,
                                              recipientFee |-> p.recipient_fee]
                 /\ box # NoParam => o.permissions[i].messageBox = box

\* A holds three rows, two of them for the inbox: limit 1 and offset 1 on the
\* inbox answer one row and the total 2, and offset 3 without a filter
\* answers no row and the total 3
C23_Witness ==
    /\ MatchingRows("A", NoParam) = 3
    /\ MatchingRows("A", "inbox") = 2
    /\ LET o == ListPermissionsHandler(DB, "A", "inbox", Given(1), Given(1))
       IN Len(o.permissions) = 1 /\ o.totalCount = 2
    /\ LET o == ListPermissionsHandler(DB, "A", NoParam, Given(2), Given(3))
       IN Len(o.permissions) = 0 /\ o.totalCount = 3

\* the entries of /devices of an identity that show a token
ListedWith(db, identityKey, token) ==
    {d \in ListDevicesHandler(db, identityKey).devices : d.fcmToken = MaskToken(token)}

\* C24: at most one registration exists per push token; after a register
\* call the token has one registration, of the caller, with the device id
\* and platform of the call, active; it is listed for the caller and for
\* no other identity, and the registrations of other tokens are as before.
C24_TokenKeyed ==
    /\ \A t \in {ShortToken, LongToken} : Cardinality(DeviceRows(DB, t)) <= 1
    /\ \A k \in Keys, req \in RegisterReqs :
          LET o == RegisterDeviceHandler(DB, k, req)
              rows == DeviceRows(o.db, req.fcmToken)
          IN /\ o.status = 200
             /\ Cardinality(rows) = 1
             /\ \A d \in rows :
                   /\ d.identity_key = k
                   /\ d.device_id = req.deviceId /\ d.platform = req.platform
                   /\ d.active
             /\ \E d \in ListedWith(o.db, k, req.fcmToken) :
                   d.deviceId = req.deviceId /\ d.platform = req.platform /\ d.active
             /\ \A k2 \in Keys \ {k} : ListedWith(o.db, k2, req.fcmToken) = {}
             /\ \A d \in o.db.device_registrations :
                   d.fcm_token # req.fcmToken => d \in device_registrations

\* both tokens are registered, the long one to B with a device id; A
\* registers it again without one, and it is listed for A only
C24_Witness ==
    /\ DeviceRows(DB, ShortToken) # {}
    /\ \E d \in DeviceRows(DB, LongToken) : d.identity_key = "B" /\ d.device_id = "d1"
    /\ LET o == RegisterDeviceHandler(DB, "A",
                  [fcmToken |-> LongToken, deviceId |-> Null, platform |-> "ios"])
       IN /\ ListedWith(o.db, "B", LongToken) = {}
          /\ \E d \in ListedWith(o.db, "A", LongToken) :
                d.deviceId = Null /\ d.platform = "ios"

\* C25: for every registered push token, the token shown by /devices is not
\* the token itself: it is the ellipsis marker followed by at most the last
\* 10 characters of the token.
C25_TokenNeverEchoed ==
    \A k \in Keys :
        \A r \in ListDevices(DB, k) :
            \A d \in {e \in ListDevicesHandler(DB, k).devices : e.id = r.id} :
                /\ d.fcmToken # r.fcm_token
                /\ SubSeq(d.fcmToken, 1, 3) = <<".", ".", ".">>
                /\ Len(d.fcmToken) <= 13

\* A has registered the token of three characters, and /devices shows it in
\* full
C25_Witness ==
    /\ \E r \in ListDevices(DB, "A") : r.fcm_token = ShortToken
    /\ \E d \in ListDevicesHandler(DB, "A").devices : d.fcmToken = ShortToken

\* the error codes of the validation rules of a send
ValidationCodes ==
    {"ERR_MESSAGE_REQUIRED", "ERR_INVALID_MESSAGEBOX", "ERR_INVALID_MESSAGE_BODY",
     "ERR_RECIPIENT_REQUIRED", "ERR_MESSAGEID_REQUIRED", "ERR_MESSAGEID_COUNT_MISMATCH",
     "ERR_INVALID_MESSAGEID", "ERR_INVALID_RECIPIENT_KEY"}

\* C26: a send refused by a validation rule changes no table: no box, no
\* permission row and no message is added.
C26_RefusedSendChangesNothing ==
    \A k \in Keys, req \in ValidationProbes :
        LET o == SendMessage(DB, k, req)
        IN o.code \in ValidationCodes => o.status = 400 /\ o.db = DB

\* B has no inbox yet, and a send to <<" A ", BadKey>> and a send to
\* <<A, B>> with one id are refused with nothing changed, while the same
\* send with two ids would provision B's inbox
C26_Witness ==
    /\ messages # EmptyBag
    /\ BoxRows(DB, "B", "inbox") = {}
    /\ LET o == SendMessage(DB, "A",
                  SendReq("inbox", "b1", JAbsent, JArr(<<PaddedA, BadKey>>),
                          JArr(<<"m1", "m2">>), "p1"))
       IN o.code = "ERR_INVALID_RECIPIENT_KEY" /\ o.db = DB
    /\ LET o == SendMessage(DB, "A",
                  SendReq("inbox", "b1", JAbsent, JArr(<<"A", "B">>), JArr(<<"m1">>), "p1"))
       IN o.code = "ERR_MESSAGEID_COUNT_MISMATCH" /\ o.db = DB
    /\ BoxRows(SendMessage(DB, "A",
                  SendReq("inbox", "b1", JAbsent, JArr(<<"A", "B">>),
                          JArr(<<"m1", "m2">>), "p1")).db, "B", "inbox") # {}

\* sends to <<A, B>> and to A or B alone, with and without a payment
GateProbes ==
    PairSends(BoxTypes, Payments)
    \cup {SendReq(box, "b1", JStr(r), JAbsent, JStr("m1"), pay) :
             box \in BoxTypes, r \in Keys, pay \in Payments}

\* C27: a validated send with a blocked recipient is refused with
\* 403 ERR_DELIVERY_BLOCKED whether or not it carries a payment that the
\* delivery requires; ERR_MISSING_PAYMENT_TX is answered only when no
\* recipient is blocked.
C27_BlockedBeforePayment ==
    \A k \in Keys, req \in GateProbes :
        LET rc == RecipientsOf(req)
            o == SendMessage(DB, k, req)
            anyBlocked == \E i \in 1..Len(rc) : ResolvedFee(rc[i], k, req.messageBox) = -1
        IN /\ anyBlocked => o.status = 403 /\ o.code = "ERR_DELIVERY_BLOCKED"
           /\ o.code = "ERR_MISSING_PAYMENT_TX" => ~anyBlocked

\* A is blocked for B and B asks 5 of itself: B's send to <<A, B>> without a
\* payment is refused as blocked, and its send to B alone as missing payment
C27_Witness ==
    /\ ResolvedFee("A", "B", "inbox") = -1
    /\ ResolvedFee("B", "B", "inbox") = 5
    /\ SendMessage(DB, "B", SendReq("inbox", "b1", JAbsent, JArr(<<"A", "B">>),
                                    JArr(<<"m1", "m2">>), NoPayment)).code
          = "ERR_DELIVERY_BLOCKED"
    /\ SendMessage(DB, "B", SendReq("inbox", "b1", JStr("B"), JAbsent, JStr("m1"),
                                    NoPayment)).code = "ERR_MISSING_PAYMENT_TX"

\* the message rows a request adds to the store
NewRows(o) == {m \in DOMAIN o.db.messages : m \notin DOMAIN messages}

\* the delivery of a request requires a payment: the server fee of the box
\* or the fee of a recipient is positive
PaymentRequired(k, req) ==
    \/ GetServerDeliveryFee(DB, req.messageBox) > 0
    \/ \E i \in 1..Len(RecipientsOf(req)) :
          ResolvedFee(RecipientsOf(req)[i], k, req.messageBox) > 0

\* C28: the envelope a successful send stores for a recipient holds the
\* message body, and the payment payload exactly when the request carried
\* one and the delivery required a payment; when no payment was required,
\* or none was carried, it holds the body only.
C28_EnvelopeKeepsRequiredPayment ==
    \A k \in Keys, req \in FeeProbes :
        LET o == SendMessage(DB, k, req)
        IN o.code = "success" =>
              \A m \in NewRows(o) :
                 /\ m.body.message = req.body
                 /\ m.body.payment =
                       IF HasPayment(req.payment) /\ PaymentRequired(k, req)
                       THEN req.payment ELSE NoPayment

\* the statement without the condition on the delivery: the envelope of a
\* successful send holds the payment payload whenever the request
\* carried one, and the body only when it carried none.
C28_EnvelopeKeepsAnyPayment ==
    \A k \in Keys, req \in FeeProbes :
        LET o == SendMessage(DB, k, req)
        IN o.code = "success" =>
              \A m \in NewRows(o) :
                 /\ m.body.message = req.body
                 /\ m.body.payment =
                       IF HasPayment(req.payment) THEN req.payment ELSE NoPayment

\* the store holds a message of a paid delivery with its payment, and a
\* free delivery that carries a payment stores a message without it
C28_Witness ==
    /\ \E m \in DOMAIN messages : m.body.payment = "p1"
    /\ \E k \in Keys, req \in FeeProbes :
          /\ HasPayment(req.payment) /\ ~PaymentRequired(k, req)
          /\ SendMessage(DB, k, req).code = "success"
          /\ \E m \in NewRows(SendMessage(DB, k, req)) : m.body.payment = NoPayment

\* the request names the pair (recipient, id)
NamesPair(req, recipient, id) ==
    \E i \in 1..Len(PairsOf(req)) :
        PairsOf(req)[i] = [recipient |-> recipient, messageId |-> id]

\* C29: after a recipient has acknowledged message id m, a second
\* acknowledgment of m is refused as not found, and a later successful send
\* of (recipient, m) stores a message that the recipient's list shows again.
C29_NoTombstone ==
    \A k \in Keys, m \in MsgIds :
        LET ack == AcknowledgeMessage(DB, k, <<m>>)
        IN (StoredFor(messages, k, m) /\ ack.code = "success") =>
              /\ ~StoredFor(ack.db.messages, k, m)
              /\ AcknowledgeMessage(ack.db, k, <<m>>).status = 400
              /\ AcknowledgeMessage(ack.db, k, <<m>>).code = "ERR_INVALID_ACKNOWLEDGMENT"
              /\ \A s \in Keys, req \in StoreProbes :
                    LET o == SendMessage(ack.db, s, req)
                    IN (NamesPair(req, k, m) /\ o.code = "success") =>
                          /\ StoredFor(o.db.messages, k, m)
                          /\ \E e \in ListMessagesHandler(o.db, k, req.messageBox).listed :
                                e.messageId = m

\* B holds m1 and acknowledges it: the second acknowledgment is refused, a
\* send of m1 to B alone stores and lists it again, and a send to <<A, B>>
\* with the ids <<m1, m1>> is answered success and stores nothing for B
C29_Witness ==
    /\ StoredFor(messages, "B", "m1")
    /\ LET ack == AcknowledgeMessage(DB, "B", <<"m1">>)
           one == SendMessage(ack.db, "A",
                     SendReq("inbox", "b2", JStr("B"), JAbsent, JStr("m1"), "p1"))
           two == SendMessage(ack.db, "A",
                     SendReq("inbox", "b2", JAbsent, JArr(<<"A", "B">>),
                             JArr(<<"m1", "m1">>), "p1"))
       IN /\ ack.code = "success"
          /\ AcknowledgeMessage(ack.db, "B", <<"m1">>).code = "ERR_INVALID_ACKNOWLEDGMENT"
          /\ one.code = "success" /\ StoredFor(one.db.messages, "B", "m1")
          /\ \E e \in ListMessagesHandler(one.db, "B", "inbox").listed :
                e.messageId = "m1" /\ e.body.message = "b2"
          /\ two.code = "success" /\ ~StoredFor(two.db.messages, "B", "m1")

\* the recipient parameters of the quotes whose effect is examined: one or
\* several keys, a padded key, and a list with a string that is no key
EffectRecipients ==
    QuoteRecipients \cup {<<"A", "A">>, <<PaddedA, "B">>, <<"A", BadKey>>}

\* the set of the entries of a sequence
Entries(q) == {q[i] : i \in 1..Len(q)}

\* C30: a quote leaves messageBox, messages, server_fees and
\* device_registrations as they are and changes no stored permission row;
\* what it adds to message_permissions is, for a recipient of the request
\* without a row for the sender and without a box-wide row, one box-wide
\* row with the smart-default fee of the box type.
C30_QuoteFrame ==
    \A k \in Keys, box \in BoxTypes, rcps \in EffectRecipients :
        LET o == GetQuote(DB, k, box, rcps)
            after == o.db.message_permissions
        IN /\ o.db.messageBox = messageBox
           /\ o.db.messages = messages
           /\ o.db.server_fees = server_fees
           /\ o.db.device_registrations = device_registrations
           /\ \A p \in DOMAIN message_permissions :
                 p \in DOMAIN after /\ after[p] = message_permissions[p]
           /\ \A p \in DOMAIN after \ DOMAIN message_permissions :
                 /\ after[p] = 1
                 /\ p.sender = Null
                 /\ p.message_box = box
                 /\ p.recipient_fee = smartDefaultFee(box)
                 /\ p.recipient \in Entries(rcps)
                 /\ PermRows(DB, p.recipient, k, box) = {}
                 /\ PermRows(DB, p.recipient, Null, box) = {}

\* A has a row for sender B and B has none: B's quote for <<A, B>> in
\* notifications adds one row, the box-wide default 10 of B, and a quote
\* with a string that is no key adds nothing
C30_Witness ==
    /\ message_permissions # EmptyBag
    /\ PermRows(DB, "B", "B", "notifications") = {}
    /\ PermRows(DB, "B", Null, "notifications") = {}
    /\ PermRows(DB, "A", Null, "notifications") # {}
    /\ GetQuote(DB, "B", "notifications", <<"A", "B">>).db.message_permissions
          = BagAdd(message_permissions, PermRow("B", Null, "notifications", 10))
    /\ GetQuote(DB, "B", "notifications", <<"A", BadKey>>).db = DB

(***************************************************************************)
(* Permission get                                                           *)
(***************************************************************************)
\* the label the response derives from a fee
StatusLabel(fee) ==
    IF fee = -1 THEN "blocked"
    ELSE IF fee > 0 THEN "payment_required"
    ELSE "always_allow"

\* C31: GET /permissions/get for a sender, or for none, answers 200 with the
\* row of exactly that (recipient, sender, box) key when it exists, and 200
\* without a permission when it does not, whatever other rows the recipient
\* has for the box; an invalid sender is refused; no answer changes a table.
C31_GetIsExactRead ==
    \A k \in Keys, box \in BoxTypes, sp \in Keys \cup {NoParam, BadKey} :
        LET o == GetPermissionHandler(DB, k, box, sp)
            sender == IF sp = NoParam THEN Null ELSE sp
            rows == PermRows(DB, k, sender, box)
        IN /\ o.db = DB
           /\ sp = BadKey => o.status = 400 /\ o.permission = {}
           /\ sp # BadKey =>
                 /\ o.status = 200
                 /\ o.code = "success"
                 /\ o.permission =
                       {[sender |-> sender, messageBox |-> box,
                         recipientFee |-> r.recipient_fee,
                         status |-> StatusLabel(r.recipient_fee)] : r \in rows}

\* A has a box-wide block for its inbox and no row for B; B has a row for A
\* and no box-wide row: get for (A, B) and for (B, none) finds nothing, get
\* for (A, none) and for (B, A) finds the row
C31_Witness ==
    /\ PermRows(DB, "A", Null, "inbox") = {PermRow("A", Null, "inbox", -1)}
    /\ PermRows(DB, "A", "B", "inbox") = {}
    /\ PermRows(DB, "B", "A", "inbox") = {PermRow("B", "A", "inbox", 5)}
    /\ PermRows(DB, "B", Null, "inbox") = {}
    /\ GetPermissionHandler(DB, "A", "inbox", "B").permission = {}
    /\ GetPermissionHandler(DB, "B", "inbox", NoParam).permission = {}
    /\ GetPermissionHandler(DB, "A", "inbox", NoParam).permission # {}
    /\ GetPermissionHandler(DB, "B", "inbox", "A").permission # {}

(***************************************************************************)
(* Boxes and permission rows are never removed                              *)
(***************************************************************************)
\* the (recipient, sender, box) keys of the permission rows of a database
TriplesOf(db) ==
    {[recipient |-> p.recipient, sender |-> p.sender, box |-> p.message_box] :
        p \in DOMAIN db.message_permissions}

\* the database after each operation the server can run from this state: a
\* request to any endpoint, a send cut short, and the migration at start-up
OperationEffects ==
    RequestEffects
    \cup {SendMessageInterrupted(DB, k, req, n).db :
             k \in Keys, req \in PairSends(BoxTypes, {"p1"}), n \in 0..1}
    \cup {Migrate(DB)}

\* C32: whatever operation runs next, every box is still there with its id
\* as the one box of its (owner, box type), and every (recipient, sender,
\* box type) that has a permission row still has one.
C32_NothingRemoved ==
    \A db \in OperationEffects :
        /\ \A b \in messageBox : BoxRows(db, b.identityKey, b.type) = {b}
        /\ TriplesOf(DB) \subseteq TriplesOf(db)

\* both inboxes exist, A's inbox holds m1 and is blocked box-wide: the
\* acknowledgement of m1 deletes the message, a set of fee 5 replaces the
\* block, and a send by B provisions nothing new
C32_Witness ==
    /\ BoxRows(DB, "A", "inbox") # {}
    /\ BoxRows(DB, "B", "inbox") # {}
    /\ StoredFor(messages, "A", "m1")
    /\ PermRows(DB, "A", Null, "inbox") = {PermRow("A", Null, "inbox", -1)}
    /\ AcknowledgeMessage(DB, "A", <<"m1">>).db.messages # messages
    /\ AcknowledgeMessage(DB, "A", <<"m1">>).db \in OperationEffects
    /\ \E db \in OperationEffects :
          PermRows(db, "A", Null, "inbox") = {PermRow("A", Null, "inbox", 5)}

(***************************************************************************)
(* The id a registration returns                                            *)
(***************************************************************************)
\* C33: a registration returns the id of the row that holds the token after
\* the call, which is not zero, whichever result the driver reports and
\* also when one connection serves every call.
C33_RegisterReturnsRowId ==
    \A k \in Keys, req \in RegisterReqs :
        LET after == RegisterDeviceHandler(DB, k, req).db
            held == {d.id : d \in DeviceRows(after, req.fcmToken)}
        IN /\ \A id \in RegisterDeviceIds(DB, req.fcmToken) : id # 0 /\ held = {id}
           /\ held = {RegisterDeviceIdSerial(DB, req.fcmToken)}

\* the short token was registered first and the long token after it: the
\* short token registered again keeps row 1, and the call served by the one
\* connection returns 2
C33_Witness ==
    /\ {d.id : d \in DeviceRows(DB, ShortToken)} = {1}
    /\ {d.id : d \in DeviceRows(DB, LongToken)} = {2}
    /\ {d.id : d \in DeviceRows(RegisterDevice(DB, "A", ShortToken, Null, Null),
                                 ShortToken)} = {1}
    /\ RegisterDeviceIdSerial(DB, ShortToken) = 2
    /\ 2 \in RegisterDeviceIds(DB, ShortToken)

(***************************************************************************)
(* Messages and their boxes                                                 *)
(***************************************************************************)
\* the box rows a message row references: its messageBoxId, owned by its
\* recipient
BoxOf(db, m) ==
    {b \in db.messageBox : b.id = m.messageBoxId /\ b.identityKey = m.recipient}

\* C34: every stored message carries a box id that is not 0 and is the id of
\* a box its recipient owns; and each message a send stores references the
\* box of its recipient with the box type of the request.
C34_MessageHasItsBox ==
    /\ \A m \in DOMAIN messages : m.messageBoxId # 0 /\ BoxOf(DB, m) # {}
    /\ \A k \in Keys, req \in BoxSends :
          LET o == SendMessage(DB, k, req)
          IN \A m \in NewRows(o) :
                /\ m.messageBoxId # 0
                /\ BoxOf(o.db, m) # {}
                /\ \A b \in BoxOf(o.db, m) : b.type = TrimSpace(req.messageBox)

\* m1 is stored in A's inbox and A has no notifications box yet: a send of m2
\* to A written with leading white space creates A's notifications box and
\* stores m2 in it
C34_Witness ==
    /\ \E m \in DOMAIN messages :
          /\ m.messageId = "m1" /\ m.recipient = "A"
          /\ \E b \in BoxOf(DB, m) : b.type = "inbox"
    /\ BoxRows(DB, "A", "notifications") = {}
    /\ LET o == SendMessage(DB, "B", SendReq("notifications", "b1", JStr(PaddedA),
                                             JAbsent, JStr("m2"), "p1"))
       IN \E m \in NewRows(o) :
             /\ m.recipient = "A"
             /\ \E b \in BoxOf(o.db, m) : b.type = "notifications"

(***************************************************************************)
(* What a send refused at the gate leaves behind                            *)
(***************************************************************************)
\* C35: a send answered ERR_DELIVERY_BLOCKED or ERR_MISSING_PAYMENT_TX
\* leaves messages, server_fees and device_registrations as they were and
\* every permission row with its fee; the boxes it adds belong to its
\* recipients and have its box type; the permission rows it adds are, for
\* a recipient of the request without a row for the sender and without a
\* box-wide row, one box-wide row with the smart-default fee.
C35_GateRefusalFrame ==
    \A k \in Keys, req \in GateProbes :
        LET o == SendMessage(DB, k, req)
            after == o.db.message_permissions
            box == TrimSpace(req.messageBox)
        IN o.code \in {"ERR_DELIVERY_BLOCKED", "ERR_MISSING_PAYMENT_TX"} =>
              /\ o.db.messages = messages
              /\ o.db.server_fees = server_fees
              /\ o.db.device_registrations = device_registrations
              /\ messageBox \subseteq o.db.messageBox
              /\ \A b \in o.db.messageBox \ messageBox :
                    /\ b.type = box
                    /\ b.identityKey \in Range(RecipientsOf(req))
              /\ \A p \in DOMAIN message_permissions :
                    p \in DOMAIN after /\ after[p] = message_permissions[p]
              /\ \A p \in DOMAIN after \ DOMAIN message_permissions :
                    /\ after[p] = 1
                    /\ p.sender = Null
                    /\ p.message_box = box
                    /\ p.recipient_fee = smartDefaultFee(box)
                    /\ p.recipient \in Range(RecipientsOf(req))
                    /\ PermRows(DB, p.recipient, k, box) = {}
                    /\ PermRows(DB, p.recipient, Null, box) = {}

\* A blocks B and has a message stored, B has no inbox and no row: B's send
\* to <<A, B>> is refused as blocked and adds B's inbox and B's default
\* row; B's send to B's notifications without a payment is refused as
\* missing payment and adds the notifications box and its default row 10
C35_Witness ==
    /\ PermRows(DB, "A", "B", "inbox") = {PermRow("A", "B", "inbox", -1)}
    /\ messages # EmptyBag
    /\ BoxRows(DB, "B", "notifications") = {}
    /\ LET o == SendMessage(DB, "B", SendReq("inbox", "b1", JAbsent, JArr(<<"A", "B">>),
                                             JArr(<<"m1", "m2">>), "p1"))
       IN /\ o.code = "ERR_DELIVERY_BLOCKED"
          /\ o.db.messages = messages
    /\ LET o == SendMessage(DB, "B", SendReq("notifications", "b1", JStr("B"), JAbsent,
                                             JStr("m1"), NoPayment))
       IN /\ o.code = "ERR_MISSING_PAYMENT_TX"
          /\ BoxRows(o.db, "B", "notifications") # {}
          /\ PermRows(o.db, "B", Null, "notifications")
                = {PermRow("B", Null, "notifications", 10)}

(***************************************************************************)
(* A completed box-wide block                                               *)
(***************************************************************************)
\* the fees a resolution that starts on these tables can return: QueryRow
\* yields one of the rows its query matches
ResolvableFees(db, recipient, sender, box) ==
    IF sender # "" /\ PermRows(db, recipient, sender, box) # {}
    THEN ScanFees(PermRows(db, recipient, sender, box))
    ELSE IF PermRows(db, recipient, Null, box) # {}
    THEN ScanFees(PermRows(db, recipient, Null, box))
    ELSE {smartDefaultFee(box)}

\* a call of the recipient that set the box-wide block has returned
BlockCompleted(recipient, box) ==
    \E w \in WorkerIds :
        /\ workers[w].pc = "done"
        /\ workers[w].sender = Null
        /\ workers[w].recipient = recipient
        /\ workers[w].box = box
        /\ workers[w].fee = -1

\* C36: once a box-wide block of a recipient has returned (no other value
\* is ever set here), every fee a send that starts now can resolve for that
\* recipient and box, for a sender without a row of its own, is -1, so that
\* the send's blocked check lists the recipient.
C36_BlockHoldsAfterRace ==
    \A r \in Keys, k \in Keys :
        BlockCompleted(r, "inbox") /\ PermRows(DB, r, k, "inbox") = {} =>
            \A f \in ResolvableFees(DB, r, k, "inbox") :
                Blocked(<<[recipient |-> r, recipientFee |-> f, allowed |-> (f # -1)]>>)
                   = <<r>>

\* A's block and a first resolution for A's inbox ran at the same time and
\* both have returned: the box-wide key of A's inbox has the rows -1 and 0
C36_Witness ==
    /\ BlockCompleted("A", "inbox")
    /\ \E w \in WorkerIds :
          /\ workers[w].pc = "done" /\ workers[w].sender = "B"
          /\ workers[w].recipient = "A" /\ workers[w].box = "inbox"
          /\ workers[w].fee = 0
    /\ ResolvableFees(DB, "A", "B", "inbox") = {-1, 0}

(***************************************************************************)
(* A completed sender-specific block                                        *)
(***************************************************************************)
\* the database after each request that is not a set by this recipient for
\* this sender and box: sends and quotes by anyone, acknowledgements, sets
\* by the recipient for another key (box-wide ones among them), sets by
\* another recipient, and the migration
EffectsBesideSet(recipient, sender, box) ==
    {SendMessage(DB, k, req).db : k \in Keys, req \in GateProbes}
    \cup {GetQuote(DB, k, b, rc).db : k \in Keys, b \in BoxTypes, rc \in QuoteRecipients}
    \cup {AcknowledgeMessage(DB, k, ids).db : k \in Keys, ids \in AckRequests}
    \cup {SetPermission(DB, c.k, c.req).db :
             c \in {x \in [k : Keys, req : SetProbes] :
                      ~(x.k = recipient /\ x.req.sender = sender
                        /\ x.req.messageBox = box)}}
    \cup {Migrate(DB)}

\* C37: while the row of (recipient, sender S, inbox) carries the fee -1,
\* every send by S to the inbox that names the recipient is answered 403
\* ERR_DELIVERY_BLOCKED, lists the recipient as blocked and stores no
\* message, whatever the box-wide row holds; and the row still carries -1
\* after any request other than a set by the recipient for S and the inbox.
C37_SenderBlockHolds ==
    \A r \in Keys, k \in Keys :
        PermRows(DB, r, k, "inbox") = {PermRow(r, k, "inbox", -1)} =>
            /\ \A req \in GateProbes :
                  req.messageBox = "inbox" /\ r \in Range(RecipientsOf(req)) =>
                     LET o == SendMessage(DB, k, req)
                     IN /\ o.status = 403
                        /\ o.code = "ERR_DELIVERY_BLOCKED"
                        /\ r \in Range(o.blocked)
                        /\ o.db.messages = messages
            /\ \A db \in EffectsBesideSet(r, k, "inbox") :
                  PermRows(db, r, k, "inbox") = {PermRow(r, k, "inbox", -1)}

\* A has blocked B, and A's box-wide row asks 5: B's send to A with a
\* payment is refused as blocked, A's box-wide set of 0 leaves the block,
\* and A's set of 5 for B lifts it
C37_Witness ==
    /\ PermRows(DB, "A", "B", "inbox") = {PermRow("A", "B", "inbox", -1)}
    /\ PermRows(DB, "A", Null, "inbox") = {PermRow("A", Null, "inbox", 5)}
    /\ SendMessage(DB, "B", SendReq("inbox", "b1", JStr("A"), JAbsent, JStr("m1"),
                                    "p1")).code = "ERR_DELIVERY_BLOCKED"
    /\ LET db == SetPermission(DB, "A", [sender |-> Null, messageBox |-> "inbox",
                                         hasFee |-> TRUE, recipientFee |-> 0]).db
       IN /\ db \in EffectsBesideSet("A", "B", "inbox")
          /\ PermRows(db, "A", Null, "inbox") = {PermRow("A", Null, "inbox", 0)}
    /\ LET db == SetPermission(DB, "A", [sender |-> "B", messageBox |-> "inbox",
                                         hasFee |-> TRUE, recipientFee |-> 5]).db
       IN /\ db \notin EffectsBesideSet("A", "B", "inbox")
          /\ PermRows(db, "A", "B", "inbox") = {PermRow("A", "B", "inbox", 5)}

(***************************************************************************)
(* A send with a stored message id                                          *)
(***************************************************************************)
\* C38: a send that names the id of a stored message leaves that message
\* row as it is (recipient, sender, box and body) and adds no second row
\* with the id, whoever sends it, to whichever recipient and box, and with
\* whatever body; unless a recipient blocks, the send is answered 200
\* success and lists all its (recipient, messageId) pairs.
C38_StoredMessageKept ==
    \A k \in Keys, req \in StoreProbes :
        LET rc == RecipientsOf(req)
            ids == MessageIdsOf(req)
            o == SendMessage(DB, k, req)
            known == {id \in Range(ids) : StoredWithId(messages, id) > 0}
        IN known # {} =>
              /\ \A m \in DOMAIN messages :
                    m.messageId \in known =>
                       m \in DOMAIN o.db.messages /\ o.db.messages[m] = messages[m]
              /\ \A m \in DOMAIN o.db.messages :
                    m.messageId \in known => m \in DOMAIN messages
              /\ (\A i \in 1..Len(rc) : ResolvedFee(rc[i], k, req.messageBox) # -1) =>
                    /\ o.status = 200
                    /\ o.code = "success"
                    /\ o.results = PairsOf(req)

\* B has sent m1 with body b1 to A's inbox: A's send of m1 with body b2 to
\* B's notifications is a success that lists (B, m1), and the stored
\* messages are as before
C38_Witness ==
    /\ \E m \in DOMAIN messages :
          /\ m.messageId = "m1" /\ m.recipient = "A" /\ m.sender = "B"
          /\ m.body.message = "b1"
          /\ m.messageBoxId = GetMessageBoxID(DB, "A", "inbox")
    /\ LET o == SendMessage(DB, "A", SendReq("notifications", "b2", JStr("B"), JAbsent,
                                             JStr("m1"), "p1"))
       IN /\ o.code = "success"
          /\ o.results = <<[recipient |-> "B", messageId |-> "m1"]>>
          /\ o.db.messages = messages

(***************************************************************************)
(* The ledger of another recipient                                          *)
(***************************************************************************)
\* the database after each send and each quote of a caller: the requests
\* that resolve fees
ResolvingEffects(caller) ==
    {SendMessage(DB, caller, req).db : req \in GateProbes}
    \cup {SendMessage(DB, caller, SendReq(box, "b1", JStr(PaddedA), JAbsent, JStr("m1"),
                                          "p1")).db : box \in BoxTypes}
    \cup {GetQuote(DB, caller, box, rc).db : box \in BoxTypes, rc \in EffectRecipients}

\* the database after each request of a caller to the other endpoints
OtherEffects(caller) ==
    {SetPermission(DB, caller, req).db : req \in SetProbes}
    \cup {GetPermissionHandler(DB, caller, box, sp).db :
             box \in BoxTypes, sp \in Keys \cup {NoParam}}
    \cup {ListPermissionsHandler(DB, caller, box, NotGiven, NotGiven).db :
             box \in BoxTypes \cup {NoParam}}
    \cup {ListMessagesHandler(DB, caller, box).db : box \in ListedTypes}
    \cup {AcknowledgeMessage(DB, caller, ids).db : ids \in AckRequests}
    \cup {RegisterDeviceHandler(DB, caller, req).db : req \in RegisterReqs}
    \cup {ListDevicesHandler(DB, caller).db}

\* the permission rows of a database whose recipient is not this identity
RowsOfOthers(db, identity) ==
    [p \in {x \in DOMAIN db.message_permissions : x.recipient # identity} |->
        db.message_permissions[p]]

\* C39: a request of identity X leaves every permission row of another
\* recipient as it is; a send or a quote of X adds to the rows of other
\* recipients only box-wide rows with the smart-default fee of their box,
\* each once, and a request to any other endpoint adds none.
C39_LedgerIsolation ==
    \A X \in Keys :
        /\ \A db \in ResolvingEffects(X) :
              LET before == RowsOfOthers(DB, X)
                  after == RowsOfOthers(db, X)
              IN /\ \A p \in DOMAIN before : p \in DOMAIN after /\ after[p] = before[p]
                 /\ \A p \in DOMAIN after \ DOMAIN before :
                       /\ after[p] = 1
                       /\ p.sender = Null
                       /\ p.recipient_fee = smartDefaultFee(p.message_box)
        /\ \A db \in OtherEffects(X) : RowsOfOthers(db, X) = RowsOfOthers(DB, X)

\* A asks 5 of B and has no row for notifications: B's sets change A's rows
\* in no way, and B's quote for A's notifications adds A's default row 10
C39_Witness ==
    /\ PermRows(DB, "A", "B", "inbox") = {PermRow("A", "B", "inbox", 5)}
    /\ PermRows(DB, "A", Null, "notifications") = {}
    /\ \E db \in OtherEffects("B") : db.message_permissions # message_permissions
    /\ RowsOfOthers(GetQuote(DB, "B", "notifications", <<"A">>).db, "B")
          = RowsOfOthers(DB, "B") @@ (PermRow("A", Null, "notifications", 10) :> 1)

(***************************************************************************)
(* Quote and send                                                           *)
(***************************************************************************)
\* the recipient strings that pass the key validation of both handlers
ValidRecipients == {r \in Keys \cup {PaddedA, BadKey} : isValidPubKey(TrimSpace(r))}

\* C40: for every sender, box type and recipient string that passes key
\* validation, the fee of the quote is the fee the send resolves, the quote
\* reports -1 exactly when the send is refused as blocked, and both leave
\* the same permission rows.
C40_QuoteAgreesWithSend ==
    \A k \in Keys, box \in BoxTypes, r \in ValidRecipients :
        LET q == GetQuote(DB, k, box, <<r>>)
            o == SendMessage(DB, k, SendReq(box, "b1", JStr(r), JAbsent, JStr("m1"), "p1"))
            sent == ResolveAll(DB, <<r>>, k, box, <<>>)
        IN /\ q.code = "success"
           /\ q.quotes[1].recipientFee = sent.feeRows[1].recipientFee
           /\ (q.quotes[1].recipientFee = -1) <=> (o.code = "ERR_DELIVERY_BLOCKED")
           /\ q.db.message_permissions = o.db.message_permissions

\* A blocks its inbox box-wide: B's quote for A written with leading white
\* space reports the fee 0 and adds a default row for the padded string,
\* and B's send to the same string is refused as blocked
C40_Witness ==
    /\ PermRows(DB, "A", Null, "inbox") = {PermRow("A", Null, "inbox", -1)}
    /\ PermRows(DB, "A", "B", "inbox") = {}
    /\ LET q == GetQuote(DB, "B", "inbox", <<PaddedA>>)
       IN /\ q.code = "success"
          /\ q.quotes[1].recipientFee = 0
          /\ PermRows(q.db, PaddedA, Null, "inbox") = {PermRow(PaddedA, Null, "inbox", 0)}
    /\ SendMessage(DB, "B", SendReq("inbox", "b1", JStr(PaddedA), JAbsent, JStr("m1"),
                                    "p1")).code = "ERR_DELIVERY_BLOCKED"
    /\ \A r \in Keys :
          GetQuote(DB, "B", "inbox", <<r>>).quotes[1].recipientFee
             = ResolveAll(DB, <<r>>, "B", "inbox", <<>>).feeRows[1].recipientFee

====
